---- MODULE Spec2Model ----
(***************************************************************************)
(* A model of the server side of the EZMedTech payment portal:            *)
(*   - the session verifier   (src/app/api/stripe/verify-session)          *)
(*   - the checkout builder   (src/app/api/stripe/checkout)                *)
(*   - the remove route       (src/app/api/stripe/payment-methods DELETE)  *)
(*   - the secret resolver    (src/lib/aws/secrets.ts)                     *)
(* Each component has its own variables and its own specification; a       *)
(* specification leaves the other components' variables at their initial   *)
(* values.                                                                 *)
(*                                                                         *)
(* JavaScript values: a string is a TLA+ string, null/undefined is Null,   *)
(* and a value is truthy when it is neither Null nor the empty string.     *)
(***************************************************************************)
EXTENDS Integers, Sequences, FiniteSets, TLC

VARIABLES
    \* ---- session verifier (GET /verify-session) ----
    vsPc,        \* position of the handler: idle, stripe, retrieve, done
    vsSessionId, \* the session_id query parameter of the request
    vsSession,   \* the session the gateway returned (NoSession before)
    vsCriteria,  \* which branch of the success criteria ran: ach, card, none
    vsCalls,     \* the network calls the handler has issued, in order
    vsFault,     \* the fault the catch block caught (NoFault: none)
    vsResp,      \* the response (NoResp before the handler answers)
    \* ---- checkout builder (POST /checkout) ----
    coPc,        \* idle, stripe, create, done
    coBody,      \* the parsed request body
    coParams,    \* the session parameters passed to sessions.create
    coCalls,     \* the network calls the handler has issued, in order
    coFault,     \* what the catch block caught ("none": nothing)
    coResp,
    \* ---- remove route (DELETE /payment-methods) ----
    pmOwner,     \* gateway: payment method -> customer it is attached to
    pmDefault,   \* gateway: customer -> invoice_settings.default_payment_method
    subsActive,  \* gateway: customer -> number of active subscriptions
    rmPc,        \* per request: position of the handler
    rmBody,      \* per request: the request body
    rmLocal,     \* per request: the handler's local variables
    rmResp,      \* per request: the response
    rmCalls,     \* per request: the network calls issued, in order
    \* ---- set-default route (POST /payment-methods) ----
    sdPc,        \* per request: position of the handler
    sdBody,      \* per request: the request body
    sdLocal,     \* per request: what the handler has observed and issued
    sdCalls,     \* per request: the network calls issued, in order
    sdResp,      \* per request: the response
    \* ---- secret resolver (getParameter) ----
    parameterCache, \* name -> cached value (Null: no entry)
    processEnv,     \* the process environment: variable -> value
    ssmStore,       \* the remote parameter store: path -> value
    gpPc,           \* per call: idle, send, done
    gpName,         \* per call: the parameterName argument
    gpSaw,          \* per call: what the call observed and did
    gpRet,          \* per call: the returned value
    gpOrder,        \* per call: the calls that had returned when it started
    \* ---- server client (getStripeServer) ----
    stripeServerInstance, \* the module's singleton (NoClient: not built)
    ssSerial,       \* how many clients the process has constructed
    ssPc,           \* per call: idle, key, done
    ssSlot,         \* per call: the getParameter call it awaits (0: none)
    ssSaw,          \* per call: what the call observed and did
    ssRet,          \* per call: the client returned or the error thrown
    \* ---- gateway-error translation (handleStripeError) ----
    hePc,           \* idle, done
    heError,        \* the error value passed in
    heModule,       \* which module's handleStripeError ran (Null before)
    heDetail,       \* the string returned (Null before)
    \* ---- success page (SuccessPageContent) ----
    spSessionId,    \* the session_id of the URL (Null: missing)
    spLoading,      \* useState: loading
    spSubscription, \* useState: subscription (Null, or the session it is of)
    spError,        \* useState: error (Null, or the message)
    spRun           \* per run of the effect: its position and its sessionId

vsVars == <<vsPc, vsSessionId, vsSession, vsCriteria, vsCalls, vsFault, vsResp>>
coVars == <<coPc, coBody, coParams, coCalls, coFault, coResp>>
rmVars == <<pmOwner, pmDefault, subsActive, rmPc, rmBody, rmLocal, rmResp, rmCalls>>
sdVars == <<sdPc, sdBody, sdLocal, sdCalls, sdResp>>
gpVars == <<parameterCache, processEnv, ssmStore, gpPc, gpName, gpSaw, gpRet, gpOrder>>
ssVars == <<stripeServerInstance, ssSerial, ssPc, ssSlot, ssSaw, ssRet>>
heVars == <<hePc, heError, heModule, heDetail>>
spVars == <<spSessionId, spLoading, spSubscription, spError, spRun>>
vars == <<vsVars, coVars, rmVars, gpVars, ssVars, sdVars, heVars, spVars>>

-----------------------------------------------------------------------------
(* JavaScript values *)

Null == "<null>"

Truthy(v) == v # Null /\ v # ""

\* String.prototype.startsWith
StartsWith(s, prefix) ==
    /\ Len(s) >= Len(prefix)
    /\ SubSeq(s, 1, Len(prefix)) = prefix

\* a || b on strings
OrElse(a, b) == IF Truthy(a) THEN a ELSE b

-----------------------------------------------------------------------------
(* The catalog: src/lib/stripe/products.ts *)

\* PRICING_TIERS, reduced to the fields the routes read. No tier has a
\* yearly price reference: the yearly entries are commented out in the source.
PRICING_TIERS ==
    << [id |-> "basic", name |-> "Basic",
        stripePriceId |-> [present |-> TRUE,
                           monthly |-> "price_1RsbiV3knPyAFyt5jhMDdEUI",
                           yearly |-> Null]],
       [id |-> "professional", name |-> "Professional",
        stripePriceId |-> [present |-> TRUE,
                           monthly |-> "price_1Rsbj73knPyAFyt5qcAlh8Lw",
                           yearly |-> Null]],
       [id |-> "enterprise", name |-> "Enterprise",
        stripePriceId |-> [present |-> TRUE,
                           monthly |-> "price_1RsbjW3knPyAFyt5uFXrBBw1",
                           yearly |-> Null]] >>

NoTier == [id |-> Null, name |-> Null,
           stripePriceId |-> [present |-> FALSE, monthly |-> Null, yearly |-> Null]]

\* Array.prototype.find: the first tier among those at the given indices
FindTier(hits) ==
    IF hits = {} THEN NoTier
    ELSE PRICING_TIERS[CHOOSE i \in hits : \A j \in hits : i <= j]

getPricingTierById(id) ==
    FindTier({i \in 1..Len(PRICING_TIERS) : PRICING_TIERS[i].id = id})

\* a variant of lines 266-271 that takes the first tier with a price reference
getPricingTierByStripePriceIdAnyTier(priceId) ==
    FindTier({i \in 1..Len(PRICING_TIERS) : PRICING_TIERS[i].stripePriceId.present})

\* lines 266-271
getPricingTierByStripePriceId(priceId) ==
    FindTier({i \in 1..Len(PRICING_TIERS) :
        LET tier == PRICING_TIERS[i] IN
        \/ (tier.stripePriceId.present /\ tier.stripePriceId.monthly = priceId)
        \/ (tier.stripePriceId.present /\ tier.stripePriceId.yearly = priceId)})

-----------------------------------------------------------------------------
(* Responses *)

NoResp == [status |-> 0, success |-> FALSE, error |-> Null,
           verificationMethod |-> Null, paymentMethodType |-> Null,
           subscriptionStatus |-> Null, planName |-> Null,
           nextBillingDate |-> Null]

\* NextResponse.json({success: false, error}, {status})
ErrorResponse(status, error) == [NoResp EXCEPT !.status = status, !.error = error]

-----------------------------------------------------------------------------
(* What a route sees of "await getStripeServer()" *)

\* A call either returns the client or throws, and on the way it either
\* contacts the remote parameter store or does not (singleton, cache,
\* environment variable or local development).
GetStripeServerOutcomes == [contacted : BOOLEAN, threw : BOOLEAN]

\* the network calls of a getStripeServer() call with this outcome
ServerClientCalls(outcome) ==
    IF outcome.contacted THEN <<"ssm.GetParameter">> ELSE <<>>

\* an Error that is not a gateway error object: it has no type field
PlainError == [type |-> Null, noSuchSession |-> FALSE]

NoFault == [source |-> "none", error |-> PlainError]

\* a variant of a single awaited call that tries a second time
IssueWithRetry(calls, call) == calls \o <<call, call>>

\* "await stripe.<call>(...)": the handler issues the call, once
Issue(calls, call) == Append(calls, call)

\* the sequence holds the element
Issued(calls, call) == \E i \in 1..Len(calls) : calls[i] = call

\* the calls of the sequence that go to the gateway
GatewayCalls(calls) == {i \in 1..Len(calls) : calls[i] # "ssm.GetParameter"}

-----------------------------------------------------------------------------
(* The session verifier: src/app/api/stripe/verify-session/route.ts, GET *)

\* What the gateway can return for an intent of the session: null, an
\* unexpanded id, or the expanded object, whose payment_method is again null,
\* an unexpanded id, or the expanded object with its type.
PaymentMethodTypes == {"card", "us_bank_account", "link"}

Intents ==
    {[kind |-> "null", pm_kind |-> "null", pm_type |-> Null],
     [kind |-> "id", pm_kind |-> "null", pm_type |-> Null],
     [kind |-> "object", pm_kind |-> "null", pm_type |-> Null],
     [kind |-> "object", pm_kind |-> "id", pm_type |-> Null]}
    \cup {[kind |-> "object", pm_kind |-> "object", pm_type |-> t] :
             t \in PaymentMethodTypes}

SessionStatuses == {"open", "complete", "expired"}
PaymentStatuses == {"paid", "unpaid", "no_payment_required"}
SubscriptionStatuses ==
    {"active", "trialing", "past_due", "canceled", "incomplete",
     "incomplete_expired", "unpaid", "paused"}

\* A subscription carries one or more line items (the gateway refuses a
\* subscription without items); MaxItems bounds how many the model draws.
MaxItems == 2

\* current_period_end is 0 for an absent or zero field and 1 for a timestamp
\* the gateway supplied.
NoSubscription ==
    [present |-> FALSE, status |-> Null, items |-> 0, priceId |-> Null,
     current_period_end |-> 0]

Subscriptions ==
    {NoSubscription} \cup
    [present : {TRUE}, status : SubscriptionStatuses, items : 1..MaxItems,
     priceId : {"price_1RsbiV3knPyAFyt5jhMDdEUI", "price_1Rsbj73knPyAFyt5qcAlh8Lw",
                "price_1RsbjW3knPyAFyt5uFXrBBw1", "price_legacy"},
     current_period_end : {0, 1}]

Sessions ==
    [status : SessionStatuses, payment_status : PaymentStatuses,
     subscription : Subscriptions, payment_intent : Intents,
     setup_intent : Intents]

NoSession ==
    [status |-> Null, payment_status |-> Null, subscription |-> NoSubscription,
     payment_intent |-> [kind |-> "null", pm_kind |-> "null", pm_type |-> Null],
     setup_intent |-> [kind |-> "null", pm_kind |-> "null", pm_type |-> Null]]

\* the session_id values a request can carry (Null: parameter missing)
SessionIds == {Null, "", "cs_test_a1", "sess_a1", "pi_cs_a1"}

\* The faults a gateway call can raise: the type the error object carries
\* and whether its message holds the gateway's no-such-session text.
GatewayErrors ==
    [type : {"invalid_request_error", "api_error", "StripeConnectionError"},
     noSuchSession : BOOLEAN]

\* lines 122-136 and 139-154: the type of an intent's payment method, read
\* only when both the intent and its payment method are expanded objects
ExpandedPaymentMethodType(intent) ==
    IF intent.kind = "object" /\ intent.pm_kind = "object"
    THEN intent.pm_type
    ELSE Null

\* a variant of lines 117-154 that looks at the setup intent first
DetectSetupIntentFirst(session) ==
    LET fromSetupIntent == ExpandedPaymentMethodType(session.setup_intent) IN
    IF fromSetupIntent # Null
    THEN fromSetupIntent
    ELSE ExpandedPaymentMethodType(session.payment_intent)

\* lines 117-154: the payment intent first, the setup intent only when the
\* payment intent yielded no payment method
DetectPaymentMethodType(session) ==
    LET fromPaymentIntent == ExpandedPaymentMethodType(session.payment_intent) IN
    IF fromPaymentIntent # Null
    THEN fromPaymentIntent
    ELSE ExpandedPaymentMethodType(session.setup_intent)

\* a variant of line 94 that lets an open session through
SessionNotExpired(session) == session.status # "expired"

\* line 94
SessionCompleted(session) == session.status = "complete"

\* a variant of line 160 that follows the file's header comment (active or
\* trialing) and leaves past_due out
ACHSubscriptionActiveOrTrialing(subscription) ==
    subscription.status \in {"active", "trialing"}

\* line 160
ACHSubscriptionActivated(subscription) ==
    subscription.status \in {"active", "trialing", "past_due"}

\* a variant of line 173 that also accepts an active subscription
CardPaidOrSubscriptionActive(session) ==
    session.payment_status = "paid" \/ session.subscription.status = "active"

\* line 173
CardPaymentCompleted(session) == session.payment_status = "paid"

\* a variant of line 157 that also takes an undetected payment method for
\* a bank transfer
CriteriaForUndetectedAsAch(paymentMethodType) ==
    IF paymentMethodType \in {"us_bank_account", Null} THEN "ach" ELSE "card"

\* lines 157 and 171: the branch of the success criteria that runs
CriteriaFor(paymentMethodType) ==
    IF paymentMethodType = "us_bank_account" THEN "ach" ELSE "card"

\* a variant of line 252 that tests for the card type instead
VerificationMethodByCardType(paymentMethodType) ==
    IF paymentMethodType = "card" THEN "card_payment" ELSE "ach_subscription"

\* line 252
VerificationMethod(paymentMethodType) ==
    IF paymentMethodType = "us_bank_account" THEN "ach_subscription" ELSE "card_payment"

\* lines 219-229
NextBillingDate(subscription) ==
    IF subscription.current_period_end > 0 THEN "current_period_end" ELSE "next_month"

\* a variant of lines 92-255 that looks for the subscription (lines 106-115)
\* before the session status (lines 94-103)
VerifySubscriptionFirst(session) ==
    LET subscription == session.subscription
        paymentMethodType == DetectPaymentMethodType(session)
        tier == getPricingTierByStripePriceId(subscription.priceId)
    IN
    IF ~subscription.present
    THEN ErrorResponse(400, "No subscription found for this session")
    ELSE IF ~SessionCompleted(session)
    THEN ErrorResponse(400, "Session not completed")
    ELSE IF CriteriaFor(paymentMethodType) = "ach"
            /\ ~ACHSubscriptionActivated(subscription)
    THEN ErrorResponse(400, "ACH subscription not properly activated")
    ELSE IF CriteriaFor(paymentMethodType) = "card"
            /\ ~CardPaymentCompleted(session)
    THEN ErrorResponse(400, "Payment not completed")
    ELSE [status |-> 200, success |-> TRUE, error |-> Null,
          verificationMethod |-> VerificationMethod(paymentMethodType),
          paymentMethodType |-> paymentMethodType,
          subscriptionStatus |-> subscription.status,
          planName |-> IF tier # NoTier THEN tier.name ELSE "Unknown Plan",
          nextBillingDate |-> NextBillingDate(subscription)]

\* lines 92-255: the handler from the retrieved session to its response
VerifyRetrievedSession(session) ==
    LET subscription == session.subscription
        paymentMethodType == DetectPaymentMethodType(session)
        tier == getPricingTierByStripePriceId(subscription.priceId)
    IN
    IF ~SessionCompleted(session)
    THEN ErrorResponse(400, "Session not completed")
    ELSE IF ~subscription.present
    THEN ErrorResponse(400, "No subscription found for this session")
    ELSE IF CriteriaFor(paymentMethodType) = "ach"
            /\ ~ACHSubscriptionActivated(subscription)
    THEN ErrorResponse(400, "ACH subscription not properly activated")
    ELSE IF CriteriaFor(paymentMethodType) = "card"
            /\ ~CardPaymentCompleted(session)
    THEN ErrorResponse(400, "Payment not completed")
    ELSE IF subscription.items = 0
    THEN ErrorResponse(400, "No subscription items found")
    ELSE [status |-> 200, success |-> TRUE, error |-> Null,
          verificationMethod |-> VerificationMethod(paymentMethodType),
          paymentMethodType |-> paymentMethodType,
          subscriptionStatus |-> subscription.status,
          planName |-> IF tier # NoTier THEN tier.name ELSE "Unknown Plan",
          nextBillingDate |-> NextBillingDate(subscription)]

\* a variant of lines 260-277 that takes every invalid request for a missing
\* session
VerifyCatchAnyInvalidRequest(error) ==
    IF error.type = "invalid_request_error"
    THEN ErrorResponse(404, "Session not found or expired")
    ELSE ErrorResponse(500, "Failed to verify session")

\* lines 256-290: the catch block
VerifyCatch(error) ==
    IF error.type = "invalid_request_error" /\ error.noSuchSession
    THEN ErrorResponse(404, "Session not found or expired")
    ELSE ErrorResponse(500, "Failed to verify session")

\* lines 53-79: the request arrives; the session id is validated and, when
\* it is well formed, getStripeServer() is awaited
VSRequest ==
    /\ vsPc = "idle"
    /\ \E sessionId \in SessionIds :
        /\ vsSessionId' = sessionId
        /\ IF ~Truthy(sessionId)
           THEN /\ vsResp' = ErrorResponse(400, "Missing session_id parameter")
                /\ vsPc' = "done"
           ELSE IF ~StartsWith(sessionId, "cs_")
           THEN /\ vsResp' = ErrorResponse(400, "Invalid session_id format")
                /\ vsPc' = "done"
           ELSE /\ vsResp' = vsResp
                /\ vsPc' = "stripe"
    /\ UNCHANGED <<vsSession, vsCriteria, vsCalls, vsFault>>
    /\ UNCHANGED <<spVars, heVars, coVars, rmVars, gpVars, ssVars, sdVars>>

\* line 79 resumes: the client is there and sessions.retrieve is issued
\* (lines 82-90), or getStripeServer() threw and the catch block answers
VSStripeServer ==
    /\ vsPc = "stripe"
    /\ \E outcome \in GetStripeServerOutcomes :
        IF ~outcome.threw
        THEN /\ vsCalls' = Issue(vsCalls \o ServerClientCalls(outcome), "sessions.retrieve")
             /\ vsPc' = "retrieve"
             /\ vsResp' = vsResp
             /\ vsFault' = vsFault
        ELSE /\ vsResp' = VerifyCatch(PlainError)
             /\ vsFault' = [source |-> "getStripeServer", error |-> PlainError]
             /\ vsPc' = "done"
             /\ vsCalls' = vsCalls \o ServerClientCalls(outcome)
    /\ UNCHANGED <<vsSessionId, vsSession, vsCriteria>>
    /\ UNCHANGED <<spVars, heVars, coVars, rmVars, gpVars, ssVars, sdVars>>

\* lines 82-255: the gateway answers with a session and the handler verifies it
VSRetrieved ==
    /\ vsPc = "retrieve"
    /\ \E session \in Sessions :
        /\ vsSession' = session
        /\ vsCriteria' =
              IF SessionCompleted(session) /\ session.subscription.present
              THEN CriteriaFor(DetectPaymentMethodType(session))
              ELSE "none"
        /\ vsResp' = VerifyRetrievedSession(session)
    /\ vsPc' = "done"
    /\ UNCHANGED <<vsSessionId, vsCalls, vsFault>>
    /\ UNCHANGED <<spVars, heVars, coVars, rmVars, gpVars, ssVars, sdVars>>

\* lines 82 and 256-290: sessions.retrieve throws and the catch block answers
VSRetrieveFailed ==
    /\ vsPc = "retrieve"
    /\ \E error \in GatewayErrors :
        /\ vsResp' = VerifyCatch(error)
        /\ vsFault' = [source |-> "sessions.retrieve", error |-> error]
    /\ vsPc' = "done"
    /\ UNCHANGED <<vsSessionId, vsSession, vsCriteria, vsCalls>>
    /\ UNCHANGED <<spVars, heVars, coVars, rmVars, gpVars, ssVars, sdVars>>

VSInit ==
    /\ vsPc = "idle"
    /\ vsSessionId = Null
    /\ vsSession = NoSession
    /\ vsCriteria = "none"
    /\ vsCalls = <<>>
    /\ vsFault = NoFault
    /\ vsResp = NoResp

VSNext == VSRequest \/ VSStripeServer \/ VSRetrieved \/ VSRetrieveFailed

-----------------------------------------------------------------------------
(* The checkout builder: the POST handler of the checkout route *)

\* the request bodies the model draws (Null: the field is missing)
PriceIds ==
    {Null, "", "price_custom_1", "basic", "professional", "enterprise", "platinum"}
BillingCycles == {Null, "monthly", "yearly"}
PaymentPreferences == {Null, "", "card", "ach", "both", "paypal"}

CheckoutBodies ==
    [priceId : PriceIds, billingCycle : BillingCycles,
     payment_method_type : PaymentPreferences,
     customerId : {Null, "cus_A", "cust_A"}, customerEmail : {Null, "dr@clinic.example"}]

NoBody ==
    [priceId |-> Null, billingCycle |-> Null, payment_method_type |-> Null,
     customerId |-> Null, customerEmail |-> Null]

NoParams ==
    [payment_method_types |-> <<>>, price |-> Null,
     payment_method_collection |-> Null, us_bank_account_verification |-> Null,
     custom_text_submit |-> FALSE, customer |-> Null, customer_email |-> Null,
     metadata_payment_method_type |-> Null, ach_enabled |-> Null]

CheckoutResponse(status, error, url) ==
    [status |-> status, error |-> error, url |-> url]

NoCheckoutResp == CheckoutResponse(0, Null, Null)

\* a variant of lines 215-233 in which the catch block throws the error on
CheckoutCatchRethrows == NoCheckoutResp

\* lines 215-233: the catch block
CheckoutCatch == CheckoutResponse(500, "Failed to create checkout session", Null)

\* lines 58-95: the price reference the session is created with, or the
\* error the handler answers with
ResolvePrice(priceId, requestedCycle) ==
    LET billingCycle == OrElse(requestedCycle, "monthly")
        tier == getPricingTierById(priceId)
    IN
    IF StartsWith(priceId, "price_")
    THEN [status |-> 0, error |-> Null, price |-> priceId]
    ELSE IF tier = NoTier
    THEN [status |-> 400, error |-> "Invalid pricing tier", price |-> Null]
    ELSE IF ~tier.stripePriceId.present
    THEN [status |-> 500, error |-> "Stripe price ID not configured for tier",
          price |-> Null]
    ELSE IF billingCycle = "yearly" /\ Truthy(tier.stripePriceId.yearly)
    THEN [status |-> 0, error |-> Null, price |-> tier.stripePriceId.yearly]
    ELSE IF Truthy(tier.stripePriceId.monthly)
    THEN [status |-> 0, error |-> Null, price |-> tier.stripePriceId.monthly]
    ELSE [status |-> 500, error |-> "Stripe price ID not available", price |-> Null]

\* line 98
InvalidPaymentPreference(payment_method_type) ==
    /\ Truthy(payment_method_type)
    /\ payment_method_type \notin {"card", "ach", "both"}

\* a variant of lines 110-122 in which the ach case falls through to the default
getPaymentMethodTypesFallThrough(type) ==
    CASE type = "card" -> <<"card">>
      [] OTHER -> <<"card", "us_bank_account">>

\* lines 110-122
getPaymentMethodTypes(type) ==
    CASE type = "ach" -> <<"us_bank_account">>
      [] type = "card" -> <<"card">>
      [] OTHER -> <<"card", "us_bank_account">>

\* a variant of line 170 that leaves the preference for both out
isACHEnabledAchOnly(paymentMethodType) == paymentMethodType = "ach"

\* line 170
isACHEnabled(paymentMethodType) ==
    paymentMethodType = "ach" \/ paymentMethodType = "both"

\* lines 189-191: the customer of the session
SessionCustomer(body) ==
    IF Truthy(body.customerId) THEN body.customerId ELSE Null

\* a variant of lines 192-195 that passes the email whenever there is one
SessionCustomerEmailAlways(body) ==
    IF Truthy(body.customerEmail) THEN body.customerEmail ELSE Null

\* lines 192-195: the email of the session, in the else branch of line 189
SessionCustomerEmail(body) ==
    IF ~Truthy(body.customerId) /\ Truthy(body.customerEmail)
    THEN body.customerEmail
    ELSE Null

\* lines 105-196: the session parameters built from a validated body
SessionParams(body, actualPriceId) ==
    LET paymentMethodType == OrElse(body.payment_method_type, "both")
        achEnabled == isACHEnabled(paymentMethodType)
    IN
    [payment_method_types |-> getPaymentMethodTypes(paymentMethodType),
     price |-> actualPriceId,
     payment_method_collection |-> IF achEnabled THEN "if_required" ELSE Null,
     us_bank_account_verification |-> IF achEnabled THEN "automatic" ELSE Null,
     custom_text_submit |-> achEnabled,
     customer |-> SessionCustomer(body),
     customer_email |-> SessionCustomerEmail(body),
     metadata_payment_method_type |-> paymentMethodType,
     ach_enabled |-> IF achEnabled THEN "true" ELSE "false"]

\* lines 49-199: the body is parsed and validated, the session parameters are
\* built and getStripeServer() is awaited
CORequest ==
    /\ coPc = "idle"
    /\ \E body \in CheckoutBodies :
        LET resolved == ResolvePrice(body.priceId, body.billingCycle) IN
        /\ coBody' = body
        /\ IF ~Truthy(body.priceId)
           THEN /\ coResp' = CheckoutResponse(400, "priceId is required", Null)
                /\ coPc' = "done"
                /\ coParams' = coParams
           ELSE IF resolved.status # 0
           THEN /\ coResp' = CheckoutResponse(resolved.status, resolved.error, Null)
                /\ coPc' = "done"
                /\ coParams' = coParams
           ELSE IF InvalidPaymentPreference(body.payment_method_type)
           THEN /\ coResp' = CheckoutResponse(400,
                                "payment_method_type must be card, ach, or both", Null)
                /\ coPc' = "done"
                /\ coParams' = coParams
           ELSE /\ coParams' = SessionParams(body, resolved.price)
                /\ coPc' = "stripe"
                /\ coResp' = coResp
    /\ UNCHANGED <<coCalls, coFault>>
    /\ UNCHANGED <<spVars, heVars, vsVars, rmVars, gpVars, ssVars, sdVars>>

\* lines 51 and 215-233: request.json() rejects and the catch block answers
COBadJson ==
    /\ coPc = "idle"
    /\ coResp' = CheckoutCatch
    /\ coFault' = "request.json"
    /\ coPc' = "done"
    /\ UNCHANGED <<coBody, coParams, coCalls>>
    /\ UNCHANGED <<spVars, heVars, vsVars, rmVars, gpVars, ssVars, sdVars>>

\* lines 199-200: the client is there and sessions.create is issued, or
\* getStripeServer() threw and the catch block answers
COStripeServer ==
    /\ coPc = "stripe"
    /\ \E outcome \in GetStripeServerOutcomes :
        IF ~outcome.threw
        THEN /\ coCalls' = Issue(coCalls \o ServerClientCalls(outcome), "sessions.create")
             /\ coPc' = "create"
             /\ coResp' = coResp
             /\ coFault' = coFault
        ELSE /\ coResp' = CheckoutCatch
             /\ coFault' = "getStripeServer"
             /\ coPc' = "done"
             /\ coCalls' = coCalls \o ServerClientCalls(outcome)
    /\ UNCHANGED <<coBody, coParams>>
    /\ UNCHANGED <<spVars, heVars, vsVars, rmVars, gpVars, ssVars, sdVars>>

\* lines 200-233: the gateway answers sessions.create: a session with its
\* url, a session without url (the handler throws), or a fault
COCreated ==
    /\ coPc = "create"
    /\ \E outcome \in {"url", "no_url", "fault"} :
        /\ coResp' = IF outcome = "url"
                     THEN CheckoutResponse(200, Null, "https://checkout.stripe.com/c/pay")
                     ELSE CheckoutCatch
        /\ coFault' = CASE outcome = "url" -> coFault
                         [] outcome = "no_url" -> "no_url"
                         [] OTHER -> "sessions.create"
    /\ coPc' = "done"
    /\ UNCHANGED <<coBody, coParams, coCalls>>
    /\ UNCHANGED <<spVars, heVars, vsVars, rmVars, gpVars, ssVars, sdVars>>

COInit ==
    /\ coPc = "idle"
    /\ coBody = NoBody
    /\ coParams = NoParams
    /\ coCalls = <<>>
    /\ coFault = "none"
    /\ coResp = NoCheckoutResp

CONext == CORequest \/ COBadJson \/ COStripeServer \/ COCreated

-----------------------------------------------------------------------------
(* The remove route: src/app/api/stripe/payment-methods/route.ts, DELETE *)

\* The gateway's customers and payment methods. "cus_deleted" is a customer
\* the gateway reports as deleted. The payment methods are of the two types
\* the portal offers, so the two listings of the guard together show every
\* payment method attached to a customer.
Customers == {"cus_A", "cus_B"}
PaymentMethods == {"pm_card_1", "pm_bank_2"}

\* the most active subscriptions a customer starts with
MaxActiveSubscriptions == 1

\* concurrent remove requests
Requests == {"r1", "r2"}

RemoveBodies ==
    [customer_id : {Null, "cust_A", "cus_A", "cus_B", "cus_deleted"},
     payment_method_id : {Null, "card_1", "pm_card_1", "pm_bank_2"}]

NoRemoveBody == [customer_id |-> Null, payment_method_id |-> Null]

\* the handler's locals: isDefaultPaymentMethod (line 692), what the guard
\* observed (lines 723-734), whether detach was issued and went through,
\* whether the customer had an active subscription and no other payment
\* method when detach was issued, whether detach or customers.update
\* raised a fault, and which of customers.retrieve and
\* paymentMethods.retrieve threw (lines 677 and 707)
NoLocal ==
    [isDefaultPaymentMethod |-> FALSE, guard |-> "none",
     subscriptions |-> 0, totalPaymentMethods |-> 0,
     detachIssued |-> FALSE, detached |-> FALSE, stranding |-> FALSE,
     faulted |-> FALSE, lookupFault |-> Null]

\* the faults a gateway call of the route can raise, by error type
RemoveFaults == {"StripeInvalidRequestError", "StripeAPIError", "StripeConnectionError"}

\* paymentMethods.list for card plus us_bank_account (lines 728-734)
AttachedTo(customer) == {pm \in PaymentMethods : pmOwner[pm] = customer}

\* lines 201-203
validateCustomerId(customer_id) == StartsWith(customer_id, "cus_")

\* lines 208-210
validatePaymentMethodId(payment_method_id) == StartsWith(payment_method_id, "pm_")

\* a variant of line 736 that counts the payment methods left after the removal
GuardRejectsWhenNoneLeft(subscriptionCount, totalPaymentMethods) ==
    subscriptionCount > 0 /\ totalPaymentMethods = 0

\* line 736
GuardRejects(subscriptionCount, totalPaymentMethods) ==
    subscriptionCount > 0 /\ totalPaymentMethods = 1

\* lines 780-825: the response to a fault of detach or of customers.update
RemoveErrorResponse(fault) ==
    CASE fault = "StripeInvalidRequestError" ->
            ErrorResponse(400, "Invalid request to Stripe")
      [] fault = "StripeAPIError" -> ErrorResponse(503, "Stripe API error")
      [] OTHER -> ErrorResponse(500, "Failed to remove payment method")

RemoveSuccess == [NoResp EXCEPT !.status = 200, !.success = TRUE]

RMFinish(r, resp) ==
    /\ rmResp' = [rmResp EXCEPT ![r] = resp]
    /\ rmPc' = [rmPc EXCEPT ![r] = "done"]

RMGoto(r, pc) ==
    /\ rmPc' = [rmPc EXCEPT ![r] = pc]
    /\ rmResp' = rmResp

\* the request issues these network calls
RMIssue(r, calls) == rmCalls' = [rmCalls EXCEPT ![r] = @ \o calls]

\* a variant of lines 747-750 in which the catch block answers with an error
OnCheckErrorAnswers(r) ==
    /\ RMFinish(r, ErrorResponse(500, "Failed to check subscriptions"))
    /\ rmCalls' = rmCalls

\* lines 747-753: the catch block of the guard logs the fault and the
\* handler goes on to paymentMethods.detach
OnCheckError(r) ==
    /\ RMGoto(r, "detach")
    /\ RMIssue(r, <<"paymentMethods.detach">>)

\* lines 602-667: getStripeServer() is awaited first, then the body is parsed
\* and validated and customers.retrieve is issued
RMRequest(r) ==
    /\ rmPc[r] = "idle"
    /\ \E body \in RemoveBodies, outcome \in GetStripeServerOutcomes,
          json \in {"ok", "throws"} :
        /\ rmBody' = [rmBody EXCEPT ![r] = IF ~outcome.threw /\ json = "ok"
                                           THEN body ELSE NoRemoveBody]
        /\ IF outcome.threw
           THEN /\ RMFinish(r, ErrorResponse(500, "Internal server error"))
                /\ RMIssue(r, ServerClientCalls(outcome))
           ELSE IF json = "throws"
           THEN /\ RMFinish(r, ErrorResponse(400, "Invalid JSON in request body"))
                /\ RMIssue(r, ServerClientCalls(outcome))
           ELSE IF ~Truthy(body.customer_id) \/ ~Truthy(body.payment_method_id)
           THEN /\ RMFinish(r, ErrorResponse(400, "Missing required fields"))
                /\ RMIssue(r, ServerClientCalls(outcome))
           ELSE IF ~validateCustomerId(body.customer_id)
           THEN /\ RMFinish(r, ErrorResponse(400, "Invalid customer_id format"))
                /\ RMIssue(r, ServerClientCalls(outcome))
           ELSE IF ~validatePaymentMethodId(body.payment_method_id)
           THEN /\ RMFinish(r, ErrorResponse(400, "Invalid payment_method_id format"))
                /\ RMIssue(r, ServerClientCalls(outcome))
           ELSE /\ RMGoto(r, "customer")
                /\ RMIssue(r, ServerClientCalls(outcome) \o <<"customers.retrieve">>)
    /\ UNCHANGED <<pmOwner, pmDefault, subsActive, rmLocal>>
    /\ UNCHANGED <<spVars, heVars, vsVars, coVars, gpVars, ssVars, sdVars>>

\* lines 664-698: customers.retrieve answers; the handler notes whether the
\* method is the customer's default and issues paymentMethods.retrieve
RMCustomer(r) ==
    /\ rmPc[r] = "customer"
    /\ \/ /\ rmBody[r].customer_id \in Customers
          /\ rmLocal' = [rmLocal EXCEPT ![r].isDefaultPaymentMethod =
                            pmDefault[rmBody[r].customer_id] = rmBody[r].payment_method_id]
          /\ RMGoto(r, "paymentMethod")
          /\ RMIssue(r, <<"paymentMethods.retrieve">>)
       \/ /\ rmBody[r].customer_id = "cus_deleted"
          /\ RMFinish(r, ErrorResponse(404, "Customer has been deleted"))
          /\ rmLocal' = rmLocal
          /\ rmCalls' = rmCalls
       \/ /\ RMFinish(r, ErrorResponse(404, "Customer not found"))
          /\ rmLocal' = [rmLocal EXCEPT ![r].lookupFault = "customers.retrieve"]
          /\ rmCalls' = rmCalls
    /\ UNCHANGED <<pmOwner, pmDefault, subsActive, rmBody>>
    /\ UNCHANGED <<spVars, heVars, vsVars, coVars, gpVars, ssVars, sdVars>>

\* lines 695-726: paymentMethods.retrieve answers; ownership is checked and
\* subscriptions.list is issued
RMPaymentMethod(r) ==
    /\ rmPc[r] = "paymentMethod"
    /\ \/ IF pmOwner[rmBody[r].payment_method_id] # rmBody[r].customer_id
          THEN /\ RMFinish(r, ErrorResponse(403,
                    "Payment method does not belong to the specified customer"))
               /\ UNCHANGED <<rmCalls, rmLocal>>
          ELSE /\ RMGoto(r, "subscriptions")
               /\ RMIssue(r, <<"subscriptions.list">>)
               /\ rmLocal' = rmLocal
       \/ /\ RMFinish(r, ErrorResponse(404, "Payment method not found"))
          /\ rmLocal' = [rmLocal EXCEPT ![r].lookupFault = "paymentMethods.retrieve"]
          /\ rmCalls' = rmCalls
    /\ UNCHANGED <<pmOwner, pmDefault, subsActive, rmBody>>
    /\ UNCHANGED <<spVars, heVars, vsVars, coVars, gpVars, ssVars, sdVars>>

\* lines 723-731 and 747-754: subscriptions.list answers and the two
\* paymentMethods.list calls are issued; or it throws, the catch block logs
\* the fault and detach is issued
RMSubscriptions(r) ==
    /\ rmPc[r] = "subscriptions"
    /\ \/ /\ rmLocal' = [rmLocal EXCEPT ![r].subscriptions =
                            subsActive[rmBody[r].customer_id]]
          /\ RMGoto(r, "lists")
          /\ RMIssue(r, <<"paymentMethods.list:card", "paymentMethods.list:us_bank_account">>)
       \/ /\ rmLocal' = [rmLocal EXCEPT ![r].guard = "failed"]
          /\ OnCheckError(r)
    /\ UNCHANGED <<pmOwner, pmDefault, subsActive, rmBody>>
    /\ UNCHANGED <<spVars, heVars, vsVars, coVars, gpVars, ssVars, sdVars>>

\* lines 728-754: the two listings answer and the guard decides; or one of
\* them throws, the catch block logs the fault and detach is issued
RMLists(r) ==
    /\ rmPc[r] = "lists"
    /\ \/ LET total == Cardinality(AttachedTo(rmBody[r].customer_id)) IN
          IF GuardRejects(rmLocal[r].subscriptions, total)
          THEN /\ rmLocal' = [rmLocal EXCEPT ![r].guard = "rejected",
                                             ![r].totalPaymentMethods = total]
               /\ RMFinish(r, ErrorResponse(400,
                     "Cannot remove the only payment method for a customer with active subscriptions"))
               /\ rmCalls' = rmCalls
          ELSE /\ rmLocal' = [rmLocal EXCEPT ![r].guard = "passed",
                                             ![r].totalPaymentMethods = total]
               /\ RMGoto(r, "detach")
               /\ RMIssue(r, <<"paymentMethods.detach">>)
       \/ /\ rmLocal' = [rmLocal EXCEPT ![r].guard = "failed"]
          /\ OnCheckError(r)
    /\ UNCHANGED <<pmOwner, pmDefault, subsActive, rmBody>>
    /\ UNCHANGED <<spVars, heVars, vsVars, coVars, gpVars, ssVars, sdVars>>

\* lines 752-826: the gateway handles paymentMethods.detach. It detaches an
\* attached method and refuses one that is attached to no customer; any call
\* can fail with a fault. After a detach, customers.update is issued when the
\* method was the default, and the handler answers 200 otherwise.
RMDetach(r) ==
    /\ rmPc[r] = "detach"
    /\ LET pm == rmBody[r].payment_method_id
           customer == rmBody[r].customer_id
           issued == [rmLocal[r] EXCEPT
                        !.detachIssued = TRUE,
                        !.stranding = /\ subsActive[customer] > 0
                                      /\ AttachedTo(customer) = {pm}]
       IN
       \/ /\ pmOwner[pm] # Null
          /\ pmOwner' = [pmOwner EXCEPT ![pm] = Null]
          /\ rmLocal' = [rmLocal EXCEPT ![r] = [issued EXCEPT !.detached = TRUE]]
          /\ IF rmLocal[r].isDefaultPaymentMethod
             THEN RMGoto(r, "update") /\ RMIssue(r, <<"customers.update">>)
             ELSE RMFinish(r, RemoveSuccess) /\ rmCalls' = rmCalls
       \/ /\ pmOwner[pm] = Null
          /\ pmOwner' = pmOwner
          /\ rmLocal' = [rmLocal EXCEPT ![r] = [issued EXCEPT !.faulted = TRUE]]
          /\ RMFinish(r, RemoveErrorResponse("StripeInvalidRequestError"))
          /\ rmCalls' = rmCalls
       \/ /\ \E fault \in RemoveFaults : RMFinish(r, RemoveErrorResponse(fault))
          /\ pmOwner' = pmOwner
          /\ rmLocal' = [rmLocal EXCEPT ![r] = [issued EXCEPT !.faulted = TRUE]]
          /\ rmCalls' = rmCalls
    /\ UNCHANGED <<pmDefault, subsActive, rmBody>>
    /\ UNCHANGED <<spVars, heVars, vsVars, coVars, gpVars, ssVars, sdVars>>

\* lines 756-826: customers.update answers: the default is cleared and the
\* handler answers 200, or the call fails and the catch block answers
RMUpdate(r) ==
    /\ rmPc[r] = "update"
    /\ \/ /\ pmDefault' = [pmDefault EXCEPT ![rmBody[r].customer_id] = Null]
          /\ RMFinish(r, RemoveSuccess)
          /\ rmLocal' = rmLocal
       \/ /\ \E fault \in RemoveFaults : RMFinish(r, RemoveErrorResponse(fault))
          /\ pmDefault' = pmDefault
          /\ rmLocal' = [rmLocal EXCEPT ![r].faulted = TRUE]
    /\ UNCHANGED <<pmOwner, subsActive, rmBody, rmCalls>>
    /\ UNCHANGED <<spVars, heVars, vsVars, coVars, gpVars, ssVars, sdVars>>

\* the gateway before any request: every payment method is attached to a
\* customer, and a customer's default, if set, is one of its own methods
RMInit ==
    /\ pmOwner \in [PaymentMethods -> Customers]
    /\ pmDefault \in [Customers -> PaymentMethods \cup {Null}]
    /\ \A c \in Customers : pmDefault[c] # Null => pmOwner[pmDefault[c]] = c
    /\ subsActive \in [Customers -> 0..MaxActiveSubscriptions]
    /\ rmPc = [r \in Requests |-> "idle"]
    /\ rmBody = [r \in Requests |-> NoRemoveBody]
    /\ rmLocal = [r \in Requests |-> NoLocal]
    /\ rmResp = [r \in Requests |-> NoResp]
    /\ rmCalls = [r \in Requests |-> <<>>]

\* the route at rest, for the specifications of the other components
RMIdle ==
    /\ pmOwner = [pm \in PaymentMethods |-> "cus_A"]
    /\ pmDefault = [c \in Customers |-> Null]
    /\ subsActive = [c \in Customers |-> 0]
    /\ rmPc = [r \in Requests |-> "idle"]
    /\ rmBody = [r \in Requests |-> NoRemoveBody]
    /\ rmLocal = [r \in Requests |-> NoLocal]
    /\ rmResp = [r \in Requests |-> NoResp]
    /\ rmCalls = [r \in Requests |-> <<>>]

\* a step of the handler of request r
RMStep(r) ==
    \/ RMRequest(r)
    \/ RMCustomer(r)
    \/ RMPaymentMethod(r)
    \/ RMSubscriptions(r)
    \/ RMLists(r)
    \/ RMDetach(r)
    \/ RMUpdate(r)

RMNext == \E r \in Requests : RMStep(r)

-----------------------------------------------------------------------------
(* The set-default route: src/app/api/stripe/payment-methods/route.ts, POST.
   It works on the same gateway state as the remove route. *)

\* what a request has observed and issued: the customer exists and is not
\* deleted (lines 465-476), the payment method exists and the customer it is
\* attached to (lines 490-491), customers.update was issued (line 516) and
\* went through, and the call that threw
NoSetDefaultLocal ==
    [customerSeen |-> FALSE, paymentMethodSeen |-> FALSE, owner |-> Null,
     updateIssued |-> FALSE, updated |-> FALSE, fault |-> Null]

\* a variant of line 492 that accepts a payment method of any customer
BelongsToAnyCustomer(paymentMethodCustomer, customer_id) == TRUE

\* line 492: paymentMethod.customer !== body.customer_id, negated
BelongsToCustomer(paymentMethodCustomer, customer_id) ==
    paymentMethodCustomer = customer_id

\* lines 534-583: the response to a fault of customers.update
SetDefaultErrorResponse(fault) ==
    CASE fault = "StripeInvalidRequestError" ->
            ErrorResponse(400, "Invalid request to Stripe")
      [] fault = "StripeAPIError" -> ErrorResponse(503, "Stripe API error")
      [] OTHER -> ErrorResponse(500, "Failed to set default payment method")

SetDefaultSuccess == [NoResp EXCEPT !.status = 200, !.success = TRUE]

SDFinish(r, resp) ==
    /\ sdResp' = [sdResp EXCEPT ![r] = resp]
    /\ sdPc' = [sdPc EXCEPT ![r] = "done"]

SDGoto(r, pc) ==
    /\ sdPc' = [sdPc EXCEPT ![r] = pc]
    /\ sdResp' = sdResp

SDIssue(r, calls) == sdCalls' = [sdCalls EXCEPT ![r] = @ \o calls]

\* lines 402-466: getStripeServer() is awaited first, then the body is parsed
\* and validated and customers.retrieve is issued. sdBody is the body the
\* request carries, whether or not the handler comes to parse it.
SDRequest(r) ==
    /\ sdPc[r] = "idle"
    /\ \E body \in RemoveBodies, outcome \in GetStripeServerOutcomes,
          json \in {"ok", "throws"} :
        /\ sdBody' = [sdBody EXCEPT ![r] = IF json = "ok" THEN body ELSE NoRemoveBody]
        /\ sdLocal' = [sdLocal EXCEPT ![r].fault =
                            IF outcome.threw THEN "getStripeServer" ELSE Null]
        /\ IF outcome.threw
           THEN /\ SDFinish(r, ErrorResponse(500, "Internal server error"))
                /\ SDIssue(r, ServerClientCalls(outcome))
           ELSE IF json = "throws"
           THEN /\ SDFinish(r, ErrorResponse(400, "Invalid JSON in request body"))
                /\ SDIssue(r, ServerClientCalls(outcome))
           ELSE IF ~Truthy(body.customer_id) \/ ~Truthy(body.payment_method_id)
           THEN /\ SDFinish(r, ErrorResponse(400, "Missing required fields"))
                /\ SDIssue(r, ServerClientCalls(outcome))
           ELSE IF ~validateCustomerId(body.customer_id)
           THEN /\ SDFinish(r, ErrorResponse(400, "Invalid customer_id format"))
                /\ SDIssue(r, ServerClientCalls(outcome))
           ELSE IF ~validatePaymentMethodId(body.payment_method_id)
           THEN /\ SDFinish(r, ErrorResponse(400, "Invalid payment_method_id format"))
                /\ SDIssue(r, ServerClientCalls(outcome))
           ELSE /\ SDGoto(r, "customer")
                /\ SDIssue(r, ServerClientCalls(outcome) \o <<"customers.retrieve">>)
    /\ UNCHANGED <<spVars, heVars, vsVars, coVars, rmVars, gpVars, ssVars>>

\* lines 464-490: customers.retrieve answers with a customer and
\* paymentMethods.retrieve is issued; or with a deleted customer; or it throws
SDCustomer(r) ==
    /\ sdPc[r] = "customer"
    /\ \/ /\ sdBody[r].customer_id \in Customers
          /\ sdLocal' = [sdLocal EXCEPT ![r].customerSeen = TRUE]
          /\ SDGoto(r, "paymentMethod")
          /\ SDIssue(r, <<"paymentMethods.retrieve">>)
       \/ /\ sdBody[r].customer_id = "cus_deleted"
          /\ SDFinish(r, ErrorResponse(404, "Customer has been deleted"))
          /\ UNCHANGED <<sdLocal, sdCalls>>
       \/ /\ SDFinish(r, ErrorResponse(404, "Customer not found"))
          /\ sdLocal' = [sdLocal EXCEPT ![r].fault = "customers.retrieve"]
          /\ sdCalls' = sdCalls
    /\ UNCHANGED sdBody
    /\ UNCHANGED <<spVars, heVars, vsVars, coVars, rmVars, gpVars, ssVars>>

\* lines 489-516: paymentMethods.retrieve answers; a payment method of
\* another customer is refused, otherwise customers.update is issued; or the
\* call throws
SDPaymentMethod(r) ==
    /\ sdPc[r] = "paymentMethod"
    /\ \/ LET owner == pmOwner[sdBody[r].payment_method_id] IN
          IF ~BelongsToCustomer(owner, sdBody[r].customer_id)
          THEN /\ SDFinish(r, ErrorResponse(403,
                    "Payment method does not belong to the specified customer"))
               /\ sdLocal' = [sdLocal EXCEPT ![r].paymentMethodSeen = TRUE,
                                             ![r].owner = owner]
               /\ sdCalls' = sdCalls
          ELSE /\ SDGoto(r, "update")
               /\ sdLocal' = [sdLocal EXCEPT ![r].paymentMethodSeen = TRUE,
                                             ![r].owner = owner,
                                             ![r].updateIssued = TRUE]
               /\ SDIssue(r, <<"customers.update">>)
       \/ /\ SDFinish(r, ErrorResponse(404, "Payment method not found"))
          /\ sdLocal' = [sdLocal EXCEPT ![r].fault = "paymentMethods.retrieve"]
          /\ sdCalls' = sdCalls
    /\ UNCHANGED sdBody
    /\ UNCHANGED <<spVars, heVars, vsVars, coVars, rmVars, gpVars, ssVars>>

\* lines 515-583: the gateway handles customers.update: it sets the default
\* to a payment method attached to the customer and refuses any other; any
\* call can fail with a fault
SDUpdate(r) ==
    /\ sdPc[r] = "update"
    /\ LET customer == sdBody[r].customer_id
           pm == sdBody[r].payment_method_id
       IN
       \/ /\ pmOwner[pm] = customer
          /\ pmDefault' = [pmDefault EXCEPT ![customer] = pm]
          /\ sdLocal' = [sdLocal EXCEPT ![r].updated = TRUE]
          /\ SDFinish(r, SetDefaultSuccess)
       \/ /\ pmOwner[pm] # customer
          /\ SDFinish(r, SetDefaultErrorResponse("StripeInvalidRequestError"))
          /\ sdLocal' = [sdLocal EXCEPT ![r].fault = "customers.update"]
          /\ pmDefault' = pmDefault
       \/ /\ \E fault \in RemoveFaults : SDFinish(r, SetDefaultErrorResponse(fault))
          /\ sdLocal' = [sdLocal EXCEPT ![r].fault = "customers.update"]
          /\ pmDefault' = pmDefault
    /\ UNCHANGED <<sdBody, sdCalls>>
    /\ UNCHANGED <<pmOwner, subsActive, rmPc, rmBody, rmLocal, rmResp, rmCalls>>
    /\ UNCHANGED <<spVars, heVars, vsVars, coVars, gpVars, ssVars>>

\* the route at rest
SDIdle ==
    /\ sdPc = [r \in Requests |-> "idle"]
    /\ sdBody = [r \in Requests |-> NoRemoveBody]
    /\ sdLocal = [r \in Requests |-> NoSetDefaultLocal]
    /\ sdCalls = [r \in Requests |-> <<>>]
    /\ sdResp = [r \in Requests |-> NoResp]

\* a step of the handler of request r
SDStep(r) == SDRequest(r) \/ SDCustomer(r) \/ SDPaymentMethod(r) \/ SDUpdate(r)

SDNext == \E r \in Requests : SDStep(r)

-----------------------------------------------------------------------------
(* The secret resolver: src/lib/aws/secrets.ts, getParameter (lines 84-172) *)

\* the parameter names the process resolves
ParameterNames == {"STRIPE_SECRET_KEY", "STRIPE_WEBHOOK_SECRET"}

\* how many getParameter calls the process makes
MaxCalls == 2

Calls == 1..MaxCalls

\* Map.prototype.get and Map.prototype.set on parameterCache, a function
\* whose domain is the set of names that have an entry
CacheGet(cache, name) == IF name \in DOMAIN cache THEN cache[name] ELSE Null

CacheSet(cache, name, value) ==
    [n \in DOMAIN cache \cup {name} |-> IF n = name THEN value ELSE cache[n]]

\* lines 92-95
getEnvironment(env) == OrElse(env["AMPLIFY_ENV"], "staging")

\* lines 129-130
fullParameterName(env, parameterName) ==
    "/amplify/ezmedtech-payment-portal/" \o getEnvironment(env) \o "/" \o parameterName

\* line 117
isLocalDevelopment(env) ==
    ~Truthy(env["AMPLIFY_ENV"]) /\ env["NODE_ENV"] = "development"

\* the paths of the remote parameter store
ParameterPaths ==
    {"/amplify/ezmedtech-payment-portal/" \o e \o "/" \o n :
        e \in {"staging", "production"}, n \in ParameterNames}

\* a variant of lines 102-122 without the environment step
LookupSourceSkipEnv(cached, envValue, localDevelopment) ==
    IF Truthy(cached) THEN "cache"
    ELSE IF localDevelopment THEN "local_dev"
    ELSE "remote"

\* lines 102-122: where the lookup ends before any network call: a cache
\* hit, an environment hit, the local-development return, or the remote store
LookupSource(cached, envValue, localDevelopment) ==
    IF Truthy(cached) THEN "cache"
    ELSE IF Truthy(envValue) THEN "env"
    ELSE IF localDevelopment THEN "local_dev"
    ELSE "remote"

\* a variant of lines 141-150 that forgets to cache the value
CacheFetchedNever(cache, parameterName, value) == cache

\* a variant of lines 141-150 that caches whatever came back
CacheFetchedAlways(cache, parameterName, value) ==
    CacheSet(cache, parameterName, value)

\* lines 141-150: the cache after the remote store answered with this value
CacheFetched(cache, parameterName, value) ==
    IF Truthy(value) THEN CacheSet(cache, parameterName, value) ELSE cache

\* lines 151-155: the catch block turns a fault into a null result
CatchFetchFault == [ret |-> Null, threw |-> FALSE]

NoSaw ==
    [cached |-> Null, source |-> "none", contacted |-> FALSE,
     remote |-> "none", threw |-> FALSE]

\* lines 100-140: getParameter(parameterName) runs up to the await of
\* client.send, or returns before it
getParameterBegin(c, parameterName) ==
    LET cached == CacheGet(parameterCache, parameterName)
        envValue == processEnv[parameterName]
        source == LookupSource(cached, envValue, isLocalDevelopment(processEnv))
    IN
    /\ gpPc[c] = "idle"
    /\ gpName' = [gpName EXCEPT ![c] = parameterName]
    /\ gpOrder' = [gpOrder EXCEPT ![c] = {d \in Calls : gpPc[d] = "done"}]
    /\ gpSaw' = [gpSaw EXCEPT ![c] = [NoSaw EXCEPT !.cached = cached,
                                                   !.source = source,
                                                   !.contacted = (source = "remote")]]
    /\ CASE source = "cache" ->
                /\ gpRet' = [gpRet EXCEPT ![c] = cached]
                /\ gpPc' = [gpPc EXCEPT ![c] = "done"]
                /\ parameterCache' = parameterCache
         [] source = "env" ->
                /\ gpRet' = [gpRet EXCEPT ![c] = envValue]
                /\ gpPc' = [gpPc EXCEPT ![c] = "done"]
                /\ parameterCache' = CacheSet(parameterCache, parameterName, envValue)
         [] source = "local_dev" ->
                /\ gpRet' = [gpRet EXCEPT ![c] = Null]
                /\ gpPc' = [gpPc EXCEPT ![c] = "done"]
                /\ parameterCache' = parameterCache
         [] OTHER ->
                /\ gpRet' = gpRet
                /\ gpPc' = [gpPc EXCEPT ![c] = "send"]
                /\ parameterCache' = parameterCache
    /\ UNCHANGED <<processEnv, ssmStore>>

\* lines 140-150: the remote store answers; a value is cached and returned,
\* a missing or empty value is returned as null
getParameterFetched(c) ==
    /\ gpPc[c] = "send"
    /\ LET stored == ssmStore[fullParameterName(processEnv, gpName[c])]
           value == OrElse(stored, Null)
       IN
       /\ parameterCache' = CacheFetched(parameterCache, gpName[c], value)
       /\ gpRet' = [gpRet EXCEPT ![c] = value]
       /\ gpSaw' = [gpSaw EXCEPT ![c].remote =
                        IF Truthy(stored) THEN "value" ELSE "no_value"]
    /\ gpPc' = [gpPc EXCEPT ![c] = "done"]
    /\ UNCHANGED <<processEnv, ssmStore, gpName, gpOrder>>

\* lines 140 and 151-155: client.send rejects and the catch block returns null
getParameterFailed(c) ==
    /\ gpPc[c] = "send"
    /\ gpRet' = [gpRet EXCEPT ![c] = CatchFetchFault.ret]
    /\ gpSaw' = [gpSaw EXCEPT ![c].remote = "fault",
                              ![c].threw = CatchFetchFault.threw]
    /\ gpPc' = [gpPc EXCEPT ![c] = "done"]
    /\ UNCHANGED <<parameterCache, processEnv, ssmStore, gpName, gpOrder>>

\* a caller of the process invokes getParameter for one of the names
GPCall(c) ==
    /\ \E parameterName \in ParameterNames : getParameterBegin(c, parameterName)
    /\ UNCHANGED <<spVars, heVars, vsVars, coVars, rmVars, ssVars, sdVars>>

GPFetched(c) ==
    /\ getParameterFetched(c)
    /\ UNCHANGED <<spVars, heVars, vsVars, coVars, rmVars, ssVars, sdVars>>

GPFetchFailed(c) ==
    /\ getParameterFailed(c)
    /\ UNCHANGED <<spVars, heVars, vsVars, coVars, rmVars, ssVars, sdVars>>

\* the process environments and parameter stores the model draws
ProcessEnvs ==
    [{"AMPLIFY_ENV", "NODE_ENV"} \cup ParameterNames -> {Null, "", "staging",
        "production", "development", "sk_test_env", "whsec_env"}]

GPCallsIdle ==
    /\ parameterCache = <<>>
    /\ gpPc = [c \in Calls |-> "idle"]
    /\ gpName = [c \in Calls |-> Null]
    /\ gpSaw = [c \in Calls |-> NoSaw]
    /\ gpRet = [c \in Calls |-> Null]
    /\ gpOrder = [c \in Calls |-> {}]

GPInit ==
    /\ processEnv \in ProcessEnvs
    /\ processEnv["AMPLIFY_ENV"] \in {Null, "production"}
    /\ processEnv["NODE_ENV"] \in {"development", "production"}
    /\ processEnv["STRIPE_SECRET_KEY"] \in {Null, "", "sk_test_env"}
    /\ processEnv["STRIPE_WEBHOOK_SECRET"] \in {Null, "whsec_env"}
    /\ ssmStore \in [ParameterPaths -> {Null, "", "sk_ssm", "whsec_ssm"}]
    /\ \A e \in {"staging", "production"} :
        /\ ssmStore["/amplify/ezmedtech-payment-portal/" \o e \o "/STRIPE_SECRET_KEY"]
               \in {Null, "", "sk_ssm"}
        /\ ssmStore["/amplify/ezmedtech-payment-portal/" \o e \o "/STRIPE_WEBHOOK_SECRET"]
               \in {Null, "whsec_ssm"}
    /\ GPCallsIdle

\* the resolver at rest, for the specifications of the other components
GPIdle ==
    /\ processEnv = [v \in {"AMPLIFY_ENV", "NODE_ENV"} \cup ParameterNames |-> Null]
    /\ ssmStore = [p \in ParameterPaths |-> Null]
    /\ GPCallsIdle

GPNext == \E c \in Calls : GPCall(c) \/ GPFetched(c) \/ GPFetchFailed(c)

-----------------------------------------------------------------------------
(* The server client: getStripeServer of src/lib/stripe/config.ts, with
   getStripeSecretKey of src/lib/aws/secrets.ts *)

\* how many getStripeServer calls the process makes
MaxServerCalls == 3

ServerCalls == 1..MaxServerCalls

\* line 7: the module runs in the server process, where window is undefined
isServer == TRUE

NoClient == [secretKey |-> Null, serial |-> 0, apiVersion |-> Null]

\* a variant of lines 75-79 that drops the key on the way to the constructor
StripeServerUnkeyed(secretKey, serial) ==
    [secretKey |-> Null, serial |-> serial, apiVersion |-> "2025-07-30.basil"]

\* lines 75-79: new StripeServer(secretKey, {apiVersion, ...}); serial tells
\* the objects the process has constructed apart
StripeServer(secretKey, serial) ==
    [secretKey |-> secretKey, serial |-> serial, apiVersion |-> "2025-07-30.basil"]

\* a variant of line 70 that never finds the singleton
NeedsConstructionAlways(instance) == TRUE

\* line 70: if (!stripeServerInstance)
NeedsConstruction(instance) == instance = NoClient

\* a variant of secrets.ts line 165 that lets an absent key through
KeyMissingNever(key) == FALSE

\* secrets.ts line 165: if (!key)
KeyMissing(key) == ~Truthy(key)

\* secrets.ts line 167 wrapped by lines 80-86 of getStripeServer
ConfigurationError ==
    "Failed to initialize Stripe server instance: "
        \o "STRIPE_SECRET_KEY not found in Parameter Store or environment"

NoServerRet == [client |-> NoClient, threw |-> FALSE, message |-> Null]

\* what a call saw and did: the singleton when it started, the calls that had
\* finished when it started, whether it resolved the secret, and the serial
\* of the client it constructed (0: none)
NoServerSaw == [instance |-> NoClient, after |-> {}, resolved |-> FALSE, constructed |-> 0]

\* the first getParameter call of the process that has not been used
FreeSlot(c) == gpPc[c] = "idle" /\ \A d \in Calls : d < c => gpPc[d] # "idle"

\* lines 65-73 and 88: the singleton is there and is returned; or it is not,
\* and getStripeSecretKey calls getParameter('STRIPE_SECRET_KEY'), which runs
\* up to its first await
SSCall(k) ==
    /\ ssPc[k] = "idle"
    /\ isServer
    /\ IF ~NeedsConstruction(stripeServerInstance)
       THEN /\ ssRet' = [ssRet EXCEPT ![k] = [NoServerRet EXCEPT !.client = stripeServerInstance]]
            /\ ssPc' = [ssPc EXCEPT ![k] = "done"]
            /\ ssSaw' = [ssSaw EXCEPT ![k] = [NoServerSaw EXCEPT
                            !.instance = stripeServerInstance,
                            !.after = {j \in ServerCalls : ssPc[j] = "done"}]]
            /\ UNCHANGED <<ssSlot, gpVars>>
       ELSE \E c \in Calls :
            /\ FreeSlot(c)
            /\ getParameterBegin(c, "STRIPE_SECRET_KEY")
            /\ ssSlot' = [ssSlot EXCEPT ![k] = c]
            /\ ssPc' = [ssPc EXCEPT ![k] = "key"]
            /\ ssSaw' = [ssSaw EXCEPT ![k] = [NoServerSaw EXCEPT
                            !.instance = stripeServerInstance,
                            !.after = {j \in ServerCalls : ssPc[j] = "done"},
                            !.resolved = TRUE]]
            /\ ssRet' = ssRet
    /\ UNCHANGED <<stripeServerInstance, ssSerial>>
    /\ UNCHANGED <<spVars, heVars, vsVars, coVars, rmVars, sdVars>>

\* the remote store answers the getParameter call this call awaits
SSFetched(k) ==
    /\ ssPc[k] = "key"
    /\ getParameterFetched(ssSlot[k])
    /\ UNCHANGED ssVars
    /\ UNCHANGED <<spVars, heVars, vsVars, coVars, rmVars, sdVars>>

\* the remote store fails the getParameter call this call awaits
SSFetchFailed(k) ==
    /\ ssPc[k] = "key"
    /\ getParameterFailed(ssSlot[k])
    /\ UNCHANGED ssVars
    /\ UNCHANGED <<spVars, heVars, vsVars, coVars, rmVars, sdVars>>

\* secrets.ts lines 163-171 and config.ts lines 73-88: getParameter has
\* returned; an absent key is thrown as an error and wrapped, a key is given
\* to the constructor, the singleton is written and returned
SSConstruct(k) ==
    /\ ssPc[k] = "key"
    /\ gpPc[ssSlot[k]] = "done"
    /\ LET key == gpRet[ssSlot[k]] IN
       IF KeyMissing(key)
       THEN /\ ssRet' = [ssRet EXCEPT ![k] = [NoServerRet EXCEPT
                            !.threw = TRUE, !.message = ConfigurationError]]
            /\ UNCHANGED <<stripeServerInstance, ssSerial, ssSaw>>
       ELSE /\ stripeServerInstance' = StripeServer(key, ssSerial + 1)
            /\ ssSerial' = ssSerial + 1
            /\ ssSaw' = [ssSaw EXCEPT ![k].constructed = ssSerial + 1]
            /\ ssRet' = [ssRet EXCEPT ![k] = [NoServerRet EXCEPT
                            !.client = StripeServer(key, ssSerial + 1)]]
    /\ ssPc' = [ssPc EXCEPT ![k] = "done"]
    /\ UNCHANGED ssSlot
    /\ UNCHANGED gpVars
    /\ UNCHANGED <<spVars, heVars, vsVars, coVars, rmVars, sdVars>>

\* the module after it is loaded: no client, no call
SSIdle ==
    /\ stripeServerInstance = NoClient
    /\ ssSerial = 0
    /\ ssPc = [k \in ServerCalls |-> "idle"]
    /\ ssSlot = [k \in ServerCalls |-> 0]
    /\ ssSaw = [k \in ServerCalls |-> NoServerSaw]
    /\ ssRet = [k \in ServerCalls |-> NoServerRet]

\* the environments and stores a process that builds the client starts in
SSResolverInit ==
    /\ processEnv \in ProcessEnvs
    /\ processEnv["AMPLIFY_ENV"] \in {Null, "production"}
    /\ processEnv["NODE_ENV"] \in {"development", "production"}
    /\ processEnv["STRIPE_SECRET_KEY"] \in {Null, "", "sk_test_env"}
    /\ processEnv["STRIPE_WEBHOOK_SECRET"] = Null
    /\ ssmStore \in [ParameterPaths -> {Null, "", "sk_ssm"}]
    /\ \A e \in {"staging", "production"} :
        /\ ssmStore["/amplify/ezmedtech-payment-portal/" \o e \o "/STRIPE_WEBHOOK_SECRET"] = Null
        /\ e # getEnvironment(processEnv)
            => ssmStore["/amplify/ezmedtech-payment-portal/" \o e \o "/STRIPE_SECRET_KEY"] = Null
    /\ GPCallsIdle

SSNext ==
    \E k \in ServerCalls :
        SSCall(k) \/ SSFetched(k) \/ SSFetchFailed(k) \/ SSConstruct(k)

-----------------------------------------------------------------------------
(* Gateway-error translation: handleStripeError of unnamed/part_013, lines
   402-476, and of src/lib/stripe/config.ts, lines 180-212 *)

\* the types the switch names, and the class names the payment-method
\* routes compare error.type with, which fall to the switch's default
ErrorTypes ==
    {"card_error", "rate_limit_error", "invalid_request_error", "api_error",
     "authentication_error", "idempotency_error",
     "StripeInvalidRequestError", "StripeAPIError"}

\* the codes of the invalid-request branch of part_013
InvalidRequestCodes ==
    {"payment_method_not_found", "setup_intent_authentication_failure",
     "payment_method_verification_failure"}

\* the codes of the default branch of part_013
AchCodes ==
    {"account_closed", "account_frozen", "insufficient_funds",
     "debit_not_authorized", "invalid_account_number", "invalid_routing_number",
     "bank_account_verification_failed", "microdeposit_verification_failed",
     "verification_failed"}

\* a message as the gateway or the runtime wrote it
RawMessage == "No such customer: 'cus_A'; request-id req_8Kq"

\* the values a catch block can pass: a plain object, an instance of Error,
\* or a primitive; type is Null when the value has no string 'type'
ThrownErrors ==
    [kind : {"object"},
     type : ErrorTypes \union {Null},
     code : InvalidRequestCodes \union AchCodes \union {Null, "resource_missing"},
     message : {Null, "", RawMessage}]
    \union
    [kind : {"Error"},
     type : ErrorTypes \union {Null},
     code : InvalidRequestCodes \union AchCodes \union {Null, "resource_missing"},
     message : {"", RawMessage}]
    \union
    [kind : {"string"}, type : {Null}, code : {Null}, message : {Null}]

\* part_013:402-410, config.ts:180-185
isStripeError(error) == error.kind # "string" /\ error.type # Null

\* part_013:420-429, the codes of the invalid-request branch
InvalidRequestCodeMessage(code) ==
    CASE code = "payment_method_not_found" -> "The payment method could not be found."
      [] code = "setup_intent_authentication_failure" ->
            "Bank account verification failed. Please check your account details."
      [] code = "payment_method_verification_failure" ->
            "Bank account verification failed. Please verify your microdeposit amounts."

\* part_013:438-465, the codes of the default branch
AchCodeMessage(code) ==
    CASE code = "account_closed" -> "The bank account has been closed."
      [] code = "account_frozen" -> "The bank account is frozen."
      [] code = "insufficient_funds" -> "Insufficient funds in the bank account."
      [] code = "debit_not_authorized" ->
            "The debit transaction was not authorized by the account holder."
      [] code = "invalid_account_number" -> "The bank account number is invalid."
      [] code = "invalid_routing_number" -> "The bank routing number is invalid."
      [] code = "bank_account_verification_failed" ->
            "Bank account verification failed. Please check your account details and try again."
      [] code = "microdeposit_verification_failed" ->
            "Microdeposit verification failed. Please check the amounts and try again."
      [] code = "verification_failed" ->
            "Account verification failed. Please contact support for assistance."

\* part_013:413-476
handleStripeError(error) ==
    IF isStripeError(error)
    THEN CASE error.type = "card_error" ->
                OrElse(error.message, "Your card was declined.")
           [] error.type = "rate_limit_error" ->
                "Too many requests made to the API too quickly."
           [] error.type = "invalid_request_error" ->
                IF error.code \in InvalidRequestCodes
                THEN InvalidRequestCodeMessage(error.code)
                ELSE OrElse(error.message,
                            "Invalid parameters were supplied to Stripe's API.")
           [] error.type = "api_error" ->
                "An error occurred internally with Stripe's API."
           [] error.type = "authentication_error" ->
                "You probably used an incorrect API key."
           [] error.type = "idempotency_error" ->
                "Idempotency key already used."
           [] OTHER ->
                IF error.code \in AchCodes
                THEN AchCodeMessage(error.code)
                ELSE OrElse(error.message, "An unexpected error occurred.")
    ELSE IF error.kind = "Error"
         THEN error.message
         ELSE "An unexpected error occurred."

\* config.ts:187-212
handleStripeError_config_ts(error) ==
    IF isStripeError(error)
    THEN CASE error.type = "card_error" ->
                OrElse(error.message, "Your card was declined.")
           [] error.type = "rate_limit_error" ->
                "Too many requests made to the API too quickly."
           [] error.type = "invalid_request_error" ->
                "Invalid parameters were supplied to Stripe's API."
           [] error.type = "api_error" ->
                "An error occurred internally with Stripe's API."
           [] error.type = "authentication_error" ->
                "You probably used an incorrect API key."
           [] error.type = "idempotency_error" ->
                "Idempotency key already used."
           [] OTHER ->
                OrElse(error.message, "An unexpected error occurred.")
    ELSE IF error.kind = "Error"
         THEN error.message
         ELSE "An unexpected error occurred."

NoError == [kind |-> "string", type |-> Null, code |-> Null, message |-> Null]

\* a catch block is about to pass its error to the translation
HEInit ==
    /\ hePc = "idle"
    /\ heError \in ThrownErrors
    /\ heModule = Null
    /\ heDetail = Null

\* the translation is not in use
HEIdle ==
    /\ hePc = "idle"
    /\ heError = NoError
    /\ heModule = Null
    /\ heDetail = Null

\* the catch block calls handleStripeError of part_013
HEHandle ==
    /\ hePc = "idle"
    /\ hePc' = "done"
    /\ heModule' = "part_013"
    /\ heDetail' = handleStripeError(heError)
    /\ UNCHANGED <<spVars, heError, vsVars, coVars, rmVars, gpVars, ssVars, sdVars>>

\* the catch block calls handleStripeError of src/lib/stripe/config.ts
HEHandleConfig ==
    /\ hePc = "idle"
    /\ hePc' = "done"
    /\ heModule' = "config.ts"
    /\ heDetail' = handleStripeError_config_ts(heError)
    /\ UNCHANGED <<spVars, heError, vsVars, coVars, rmVars, gpVars, ssVars, sdVars>>

HENext == HEHandle \/ HEHandleConfig

-----------------------------------------------------------------------------
(* The success page: SuccessPageContent of src/app/success/page.tsx, its
   state and the effect that verifies the session (lines 53-105) *)

\* the session_id values of the URL (Null: the parameter is missing)
PageSessionIds == {Null, "cs_test_a1", "cs_test_b2"}

\* how many times the effect runs: on mount and on each change of sessionId
MaxVerifications == 3

Verifications == 1..MaxVerifications

\* what the verify-session request resolves to: the status and the parsed
\* body, reduced to the fields the effect reads; the last is a body without
\* an error field
VerifyResponses ==
    {[status |-> 200, success |-> TRUE, subscription |-> TRUE, error |-> Null],
     [status |-> 400, success |-> FALSE, subscription |-> FALSE,
      error |-> "Session not completed"],
     [status |-> 404, success |-> FALSE, subscription |-> FALSE,
      error |-> "Session not found or expired"],
     [status |-> 500, success |-> FALSE, subscription |-> FALSE,
      error |-> "Failed to verify session"],
     [status |-> 502, success |-> FALSE, subscription |-> FALSE, error |-> Null]}

NoRun == [pc |-> "idle", sessionId |-> Null]

\* lines 88-94: the message for a response that is not a success
ResponseError(response) ==
    IF response.status = 404
    THEN "This checkout session has expired or is no longer valid. Sessions expire after 24 hours. Please create a new checkout session."
    ELSE OrElse(response.error, "Failed to verify session")

\* line 81: data.success && data.subscription
IsSuccess(response) == response.success /\ response.subscription

\* lines 70-78: the effect runs for sessionId up to its first await: without
\* a session id it sets the error and ends loading, otherwise it sends the
\* request
EffectStart(k, sessionId) ==
    IF ~Truthy(sessionId)
    THEN /\ spError' = "No session ID found in URL"
         /\ spLoading' = FALSE
         /\ spRun' = [spRun EXCEPT ![k] = [pc |-> "done", sessionId |-> sessionId]]
    ELSE /\ spRun' = [spRun EXCEPT ![k] = [pc |-> "fetch", sessionId |-> sessionId]]
         /\ UNCHANGED <<spError, spLoading>>

\* the next run of the effect is run k
NextRun(k) ==
    /\ spRun[k].pc = "idle"
    /\ \A j \in Verifications : j < k => spRun[j].pc # "idle"

\* lines 69-105: the component is mounted and the effect runs for the first
\* time
SPMount ==
    /\ NextRun(1)
    /\ EffectStart(1, spSessionId)
    /\ UNCHANGED <<spSessionId, spSubscription>>
    /\ UNCHANGED <<heVars, vsVars, coVars, rmVars, gpVars, ssVars, sdVars>>

\* lines 54-55 and 105: the session_id of the URL changes; the component is
\* rendered again with its state kept, and the effect, whose dependency is
\* sessionId, runs again
SPSessionChanged(k) ==
    /\ k > 1
    /\ NextRun(k)
    /\ \E sessionId \in PageSessionIds \ {spSessionId} :
        /\ spSessionId' = sessionId
        /\ EffectStart(k, sessionId)
    /\ spSubscription' = spSubscription
    /\ UNCHANGED <<heVars, vsVars, coVars, rmVars, gpVars, ssVars, sdVars>>

\* lines 78-95 and 99-101: the request of run k resolves and its body parses
SPResponded(k) ==
    /\ spRun[k].pc = "fetch"
    /\ \E response \in VerifyResponses :
        IF IsSuccess(response)
        THEN /\ spSubscription' = spRun[k].sessionId
             /\ spError' = spError
        ELSE /\ spError' = ResponseError(response)
             /\ spSubscription' = spSubscription
    /\ spLoading' = FALSE
    /\ spRun' = [spRun EXCEPT ![k].pc = "done"]
    /\ spSessionId' = spSessionId
    /\ UNCHANGED <<heVars, vsVars, coVars, rmVars, gpVars, ssVars, sdVars>>

\* lines 96-101: fetch or response.json() rejects and the catch block sets
\* the error
SPFetchFailed(k) ==
    /\ spRun[k].pc = "fetch"
    /\ spError' = "Failed to verify your subscription. Please contact support."
    /\ spLoading' = FALSE
    /\ spRun' = [spRun EXCEPT ![k].pc = "done"]
    /\ UNCHANGED <<spSessionId, spSubscription>>
    /\ UNCHANGED <<heVars, vsVars, coVars, rmVars, gpVars, ssVars, sdVars>>

\* lines 57-67: the initial state of the component, for a URL with or
\* without session_id
SPInit ==
    /\ spSessionId \in PageSessionIds
    /\ spLoading = TRUE
    /\ spSubscription = Null
    /\ spError = Null
    /\ spRun = [k \in Verifications |-> NoRun]

\* the page is not open
SPIdle ==
    /\ spSessionId = Null
    /\ spLoading = TRUE
    /\ spSubscription = Null
    /\ spError = Null
    /\ spRun = [k \in Verifications |-> NoRun]

SPNext ==
    \/ SPMount
    \/ \E k \in Verifications :
        SPSessionChanged(k) \/ SPResponded(k) \/ SPFetchFailed(k)

-----------------------------------------------------------------------------
(* Specifications, one per component *)

InitVerify == VSInit /\ COInit /\ RMIdle /\ GPIdle /\ SSIdle /\ SDIdle /\ HEIdle /\ SPIdle

SpecVerify == InitVerify /\ [][VSNext]_vars

InitCheckout == VSInit /\ COInit /\ RMIdle /\ GPIdle /\ SSIdle /\ SDIdle /\ HEIdle /\ SPIdle

SpecCheckout == InitCheckout /\ [][CONext]_vars

InitRemove == VSInit /\ COInit /\ RMInit /\ GPIdle /\ SSIdle /\ SDIdle /\ HEIdle /\ SPIdle

SpecRemove == InitRemove /\ [][RMNext]_vars

InitResolve == VSInit /\ COInit /\ RMIdle /\ GPInit /\ SSIdle /\ SDIdle /\ HEIdle /\ SPIdle

SpecResolve == InitResolve /\ [][GPNext]_vars

InitClient == VSInit /\ COInit /\ RMIdle /\ SSResolverInit /\ SSIdle /\ SDIdle /\ HEIdle /\ SPIdle

SpecClient == InitClient /\ [][SSNext]_vars

InitSuccessPage == VSInit /\ COInit /\ RMIdle /\ GPIdle /\ SSIdle /\ SDIdle /\ HEIdle /\ SPInit

SpecSuccessPage == InitSuccessPage /\ [][SPNext]_vars

\* the effect runs once the component is mounted, and every request the
\* page sent resolves or rejects
FairSpecSuccessPage ==
    /\ SpecSuccessPage
    /\ WF_vars(SPMount)
    /\ \A k \in Verifications : WF_vars(SPResponded(k) \/ SPFetchFailed(k))

InitHandleError == VSInit /\ COInit /\ RMIdle /\ GPIdle /\ SSIdle /\ SDIdle /\ HEInit /\ SPIdle

SpecHandleError == InitHandleError /\ [][HENext]_vars

\* the gateway before any set-default request: as for the remove route,
\* without subscriptions, which the set-default route never reads
SDGateway == RMInit /\ subsActive = [c \in Customers |-> 0]

InitSetDefault == VSInit /\ COInit /\ SDGateway /\ GPIdle /\ SSIdle /\ SDIdle /\ HEIdle /\ SPIdle

SpecSetDefault == InitSetDefault /\ [][SDNext]_vars

\* One request to one of the routes. The gateway holds a customer with an
\* active subscription whose only payment method is its default, and a
\* customer with one payment method and no subscription.
RoutesGateway ==
    /\ pmOwner = [pm \in PaymentMethods |-> IF pm = "pm_card_1" THEN "cus_A" ELSE "cus_B"]
    /\ pmDefault = [c \in Customers |-> IF c = "cus_A" THEN "pm_card_1" ELSE Null]
    /\ subsActive = [c \in Customers |-> IF c = "cus_A" THEN 1 ELSE 0]
    /\ rmPc = [r \in Requests |-> "idle"]
    /\ rmBody = [r \in Requests |-> NoRemoveBody]
    /\ rmLocal = [r \in Requests |-> NoLocal]
    /\ rmResp = [r \in Requests |-> NoResp]
    /\ rmCalls = [r \in Requests |-> <<>>]

VSAtRest == vsPc = "idle"
COAtRest == coPc = "idle"
RMAtRest == \A r \in Requests : rmPc[r] = "idle"
SDAtRest == \A r \in Requests : sdPc[r] = "idle"

InitRoutes == VSInit /\ COInit /\ RoutesGateway /\ GPIdle /\ SSIdle /\ SDIdle /\ HEIdle /\ SPIdle

\* the other routes have received no request
VSAlone == COAtRest /\ RMAtRest /\ SDAtRest
COAlone == VSAtRest /\ RMAtRest /\ SDAtRest
RMAlone == VSAtRest /\ COAtRest /\ SDAtRest
SDAlone == VSAtRest /\ COAtRest /\ RMAtRest

RoutesNext ==
    \/ VSAlone /\ VSRequest
    \/ VSAlone /\ VSStripeServer
    \/ VSAlone /\ VSRetrieved
    \/ VSAlone /\ VSRetrieveFailed
    \/ COAlone /\ CORequest
    \/ COAlone /\ COBadJson
    \/ COAlone /\ COStripeServer
    \/ COAlone /\ COCreated
    \/ RMAlone /\ RMRequest("r1")
    \/ RMAlone /\ RMCustomer("r1")
    \/ RMAlone /\ RMPaymentMethod("r1")
    \/ RMAlone /\ RMSubscriptions("r1")
    \/ RMAlone /\ RMLists("r1")
    \/ RMAlone /\ RMDetach("r1")
    \/ RMAlone /\ RMUpdate("r1")
    \/ SDAlone /\ SDRequest("r1")
    \/ SDAlone /\ SDCustomer("r1")
    \/ SDAlone /\ SDPaymentMethod("r1")
    \/ SDAlone /\ SDUpdate("r1")

SpecRoutes == InitRoutes /\ [][RoutesNext]_vars

-----------------------------------------------------------------------------
(* Properties of the session verifier, checked under SpecVerify *)

\* the handler has answered for a session the gateway returned that is
\* complete and has a subscription attached
VerifiedComplete ==
    /\ vsPc = "done"
    /\ vsSession # NoSession
    /\ vsSession.status = "complete"
    /\ vsSession.subscription.present

VerifySucceeded == vsResp.status = 200 /\ vsResp.success

VerifyFailed == vsResp.status = 400 /\ ~vsResp.success

C2_CardCriteria ==
    (VerifiedComplete /\ DetectPaymentMethodType(vsSession) = "card")
    => IF vsSession.payment_status = "paid" THEN VerifySucceeded ELSE VerifyFailed

\* an unpaid card session with an active subscription was refused
C2_Witness ==
    /\ VerifiedComplete
    /\ DetectPaymentMethodType(vsSession) = "card"
    /\ vsSession.payment_status = "unpaid"
    /\ vsSession.subscription.status = "active"
    /\ VerifyFailed
    /\ vsResp.error = "Payment not completed"

\* C3: a retrieved session whose status is not complete is answered with 400
\* and success false, whatever its payment method, payment status and
\* subscription status.
C3_IncompleteSessionFails ==
    (vsPc = "done" /\ vsSession # NoSession /\ vsSession.status # "complete")
    => (VerifyFailed /\ vsResp.error = "Session not completed")

\* an open session that is paid, has an active subscription and a bank
\* account as payment method was refused
C3_Witness ==
    /\ vsPc = "done"
    /\ vsSession.status = "open"
    /\ vsSession.payment_status = "paid"
    /\ vsSession.subscription.status = "active"
    /\ DetectPaymentMethodType(vsSession) = "us_bank_account"
    /\ VerifyFailed

\* C4: a successful response reports the criteria that decided it:
\* ach_subscription exactly when the bank-transfer branch ran, card_payment
\* exactly when the card branch ran; and a complete bank-transfer session
\* that is unpaid with an active subscription succeeds as ach_subscription.
C4_ReportsAppliedCriteria ==
    /\ (vsPc = "done" /\ vsResp.success)
        => /\ vsResp.verificationMethod = "ach_subscription" <=> vsCriteria = "ach"
           /\ vsResp.verificationMethod = "card_payment" <=> vsCriteria = "card"
           /\ vsCriteria = "ach" => ACHSubscriptionActivated(vsSession.subscription)
           /\ vsCriteria = "card" => vsSession.payment_status = "paid"
    /\ (/\ VerifiedComplete
        /\ DetectPaymentMethodType(vsSession) = "us_bank_account"
        /\ vsSession.payment_status = "unpaid"
        /\ vsSession.subscription.status = "active")
        => (VerifySucceeded /\ vsResp.verificationMethod = "ach_subscription")

\* scenario C happened: unpaid, active, verified as ach_subscription
C4_Witness ==
    /\ VerifiedComplete
    /\ DetectPaymentMethodType(vsSession) = "us_bank_account"
    /\ vsSession.payment_status = "unpaid"
    /\ vsSession.subscription.status = "active"
    /\ vsResp.success
    /\ vsResp.verificationMethod = "ach_subscription"
    /\ vsCriteria = "ach"

-----------------------------------------------------------------------------
(* Properties of the remove route, checked under SpecRemove *)

\* the request passed the ownership check, so the payment method belonged to
\* the customer when the handler looked
OwnershipPassed(r) == rmLocal[r].guard # "none" \/ rmPc[r] \in {"subscriptions", "lists"}

-----------------------------------------------------------------------------
(* Properties of the checkout builder, checked under SpecCheckout *)

\* sessions.create was issued with coParams
SessionCreateIssued == Issued(coCalls, "sessions.create")

\* C6: the payment preference decides the payment-method types of the
\* session: card gives card only, ach gives us_bank_account only, both or no
\* preference (a missing or empty field) gives both; any other value is
\* answered with 400 and no session is created.
C6_PreferenceToTypes ==
    LET preference == coBody.payment_method_type IN
    /\ coParams # NoParams =>
        /\ preference = "card" => coParams.payment_method_types = <<"card">>
        /\ preference = "ach" => coParams.payment_method_types = <<"us_bank_account">>
        /\ (preference = "both" \/ ~Truthy(preference))
            => coParams.payment_method_types = <<"card", "us_bank_account">>
    /\ (Truthy(preference) /\ preference \notin {"card", "ach", "both"})
        => /\ ~SessionCreateIssued
           /\ coParams = NoParams
           /\ coPc = "done"
           /\ coResp.status = 400

\* a session was created for the ach preference, with bank transfer only
C6_Witness ==
    /\ coPc = "done"
    /\ SessionCreateIssued
    /\ coBody.payment_method_type = "ach"
    /\ coParams.payment_method_types = <<"us_bank_account">>
    /\ coResp.status = 200

\* the price reference a tier has for a billing cycle (Null: none)
PriceReferenceFor(tier, billingCycle) ==
    IF ~tier.stripePriceId.present THEN Null
    ELSE IF billingCycle = "yearly" THEN tier.stripePriceId.yearly
    ELSE tier.stripePriceId.monthly

\* C7: a request that names a tier instead of a price reference is answered
\* with 400, and no session is created, when the tier is unknown or has no
\* price reference for the requested billing cycle.
C7_TierWithoutPriceRejected ==
    LET tier == getPricingTierById(coBody.priceId)
        billingCycle == OrElse(coBody.billingCycle, "monthly")
    IN
    (/\ coPc # "idle"
     /\ Truthy(coBody.priceId)
     /\ ~StartsWith(coBody.priceId, "price_")
     /\ (tier = NoTier \/ ~Truthy(PriceReferenceFor(tier, billingCycle))))
    => /\ ~SessionCreateIssued
       /\ coPc = "done" => coResp.status = 400

-----------------------------------------------------------------------------
(* Properties of the secret resolver, checked under SpecResolve *)

Successive(c, d) ==
    /\ c # d
    /\ c \in gpOrder[d]
    /\ gpName[c] = gpName[d]

\* C9 as it is stated: two successive calls for the same name contact the
\* remote store at most once in total.
C9_AtMostOneRoundTrip ==
    \A c, d \in Calls :
        Successive(c, d) => ~(gpSaw[c].contacted /\ gpSaw[d].contacted)

\* C9, amended: when the first of two successive calls for the same name
\* returns a value, the second is served from the cache, returns the same
\* value, and the two calls contact the remote store at most once in total.
C9_SecondServedFromCache ==
    \A c, d \in Calls :
        (Successive(c, d) /\ Truthy(gpRet[c]))
        => /\ gpPc[d] = "done"
           /\ gpSaw[d].source = "cache"
           /\ ~gpSaw[d].contacted
           /\ gpRet[d] = gpRet[c]

\* the first call went to the remote store and the second was served from
\* the cache
C9_Witness ==
    \E c, d \in Calls :
        /\ Successive(c, d)
        /\ gpSaw[c].remote = "value"
        /\ gpSaw[d].source = "cache"
        /\ gpRet[d] = gpRet[c]

\* C10: a call never raises; when the remote store fails or returns no value
\* the call returns null and leaves the cache as it was, and the cache never
\* holds a null or empty value.
C10_FailureIsNullAndUncached ==
    /\ [](\A c \in Calls :
            /\ ~gpSaw[c].threw
            /\ (gpPc[c] = "done" /\ gpSaw[c].remote \in {"fault", "no_value"})
                => gpRet[c] = Null)
    /\ [](\A n \in DOMAIN parameterCache : Truthy(parameterCache[n]))
    /\ [][\A c \in Calls :
            (/\ gpPc[c] = "send"
             /\ gpPc'[c] = "done"
             /\ gpSaw'[c].remote \in {"fault", "no_value"})
            => parameterCache' = parameterCache]_vars

\* one call met a fault of the remote store and another an empty value; both
\* returned null and the name has no cache entry
C10_Witness ==
    \E c, d \in Calls :
        /\ gpPc[c] = "done" /\ gpSaw[c].remote = "fault" /\ gpRet[c] = Null
        /\ gpPc[d] = "done" /\ gpSaw[d].remote = "no_value" /\ gpRet[d] = Null
        /\ gpName[c] = gpName[d]
        /\ ssmStore[fullParameterName(processEnv, gpName[d])] = ""
        /\ gpName[c] \notin DOMAIN parameterCache

-----------------------------------------------------------------------------
(* Properties of the server client, checked under SpecClient *)

\* call d started after call c had finished
StartedAfter(c, d) == c # d /\ ssPc[d] # "idle" /\ c \in ssSaw[d].after

\* call c has returned a client
ReturnedClient(c) == ssPc[c] = "done" /\ ~ssRet[c].threw

\* C11: a call whose secret lookup returns absent throws the configuration
\* error and returns no client; the step that throws leaves the singleton as
\* it was, the singleton is unset as long as no construction has succeeded,
\* and a call that starts after a failed call and finds the singleton unset
\* resolves the secret again with a lookup of its own and, given a key,
\* constructs the client.
C11_AbsentKeyIsConfigurationError ==
    /\ [](\A k \in ServerCalls :
            (ssPc[k] = "done" /\ ssSaw[k].resolved /\ ~Truthy(gpRet[ssSlot[k]]))
            => /\ ssRet[k].threw
               /\ ssRet[k].message = ConfigurationError
               /\ ssRet[k].client = NoClient
               /\ ssSaw[k].constructed = 0)
    /\ []((stripeServerInstance = NoClient)
            <=> (\A k \in ServerCalls : ssSaw[k].constructed = 0))
    /\ [](\A j, k \in ServerCalls :
            (StartedAfter(j, k) /\ ssRet[j].threw /\ ssSaw[k].instance = NoClient)
            => /\ ssSaw[k].resolved
               /\ ssSlot[k] # ssSlot[j]
               /\ (ssPc[k] = "done" /\ Truthy(gpRet[ssSlot[k]]))
                    => (ssSaw[k].constructed > 0 /\ ~ssRet[k].threw))
    /\ [][\A k \in ServerCalls :
            (ssPc[k] # "done" /\ ssPc'[k] = "done" /\ ssRet'[k].threw)
            => stripeServerInstance' = stripeServerInstance]_vars

\* a call failed on a fault of the remote store with no client built, and a
\* call that started afterwards resolved the key again and built the client
C11_Witness ==
    \E j, k \in ServerCalls :
        /\ StartedAfter(j, k)
        /\ ssRet[j].threw
        /\ gpSaw[ssSlot[j]].remote = "fault"
        /\ ssSaw[k].instance = NoClient
        /\ ssPc[k] = "done"
        /\ gpSaw[ssSlot[k]].remote = "value"
        /\ ssSaw[k].constructed = 1
        /\ stripeServerInstance = ssRet[k].client

\* before the first call nothing is resolved and nothing is constructed
NothingBeforeFirstCall ==
    (\A k \in ServerCalls : ssPc[k] = "idle")
    => /\ stripeServerInstance = NoClient
       /\ ssSerial = 0
       /\ \A c \in Calls : gpPc[c] = "idle"

\* C12 as it is stated: nothing is constructed before the first call, and a
\* call that starts after a call has returned a client returns that very
\* client, without resolving the secret and without constructing.
C12_SameInstanceAfterSuccess ==
    /\ NothingBeforeFirstCall
    /\ \A c, d \in ServerCalls :
        (StartedAfter(c, d) /\ ReturnedClient(c))
        => /\ ssPc[d] = "done"
           /\ ~ssSaw[d].resolved
           /\ ssSaw[d].constructed = 0
           /\ ssRet[d].client = ssRet[c].client

\* C12, amended: nothing is constructed before the first call, and a call
\* that starts after a call has returned a client returns at once, without
\* resolving the secret and without constructing, the client the singleton
\* holds at that moment, configured with the same key; it is the very client
\* the earlier call returned unless a call that was already under way when
\* the earlier call returned has overwritten the singleton since.
C12_MemoizedAfterSuccess ==
    /\ NothingBeforeFirstCall
    /\ \A c, d \in ServerCalls :
        (StartedAfter(c, d) /\ ReturnedClient(c))
        => /\ ssPc[d] = "done"
           /\ ~ssSaw[d].resolved
           /\ ssSaw[d].constructed = 0
           /\ ssSlot[d] = 0
           /\ ~ssRet[d].threw
           /\ ssRet[d].client = ssSaw[d].instance
           /\ ssRet[d].client # NoClient
           /\ ssRet[d].client.secretKey = ssRet[c].client.secretKey
           /\ ssRet[d].client # ssRet[c].client
                => \E e \in ServerCalls :
                    /\ e # c
                    /\ c \notin ssSaw[e].after
                    /\ ssSaw[e].constructed = ssRet[d].client.serial

\* a call built the client and a call that started afterwards returned the
\* same client without a lookup
C12_Witness ==
    \E c, d \in ServerCalls :
        /\ StartedAfter(c, d)
        /\ ssSaw[c].constructed = 1
        /\ ssPc[d] = "done"
        /\ ~ssSaw[d].resolved
        /\ ssRet[d].client = ssRet[c].client
        /\ ssRet[d].client.serial = 1

\* calls c and d both found no client and resolved the key, and neither
\* started after the other had finished
OverlappingCold(c, d) ==
    /\ c # d
    /\ ssSaw[c].resolved /\ ssSaw[d].resolved
    /\ c \notin ssSaw[d].after
    /\ d \notin ssSaw[c].after

\* the secret a lookup of the gateway key reaches: the environment variable,
\* else, outside local development, the remote store's value
StoredSecret ==
    IF Truthy(processEnv["STRIPE_SECRET_KEY"])
    THEN processEnv["STRIPE_SECRET_KEY"]
    ELSE IF isLocalDevelopment(processEnv) THEN Null
    ELSE OrElse(ssmStore[fullParameterName(processEnv, "STRIPE_SECRET_KEY")], Null)

\* C13: the singleton, once written, is the last client constructed; and when
\* two overlapping cold calls have both finished, a secret is stored and the
\* remote store failed neither lookup, both lookups returned the stored
\* secret, both calls returned a client built with it, and the cache and the
\* singleton hold what one call alone leaves: the secret under its name and
\* a client configured with it.
C13_BenignRace ==
    /\ stripeServerInstance # NoClient => stripeServerInstance.serial = ssSerial
    /\ \A c, d \in ServerCalls :
        (/\ OverlappingCold(c, d)
         /\ ssPc[c] = "done" /\ ssPc[d] = "done"
         /\ Truthy(StoredSecret)
         /\ gpSaw[ssSlot[c]].remote # "fault"
         /\ gpSaw[ssSlot[d]].remote # "fault")
        => /\ gpRet[ssSlot[c]] = StoredSecret
           /\ gpRet[ssSlot[d]] = StoredSecret
           /\ ~ssRet[c].threw /\ ~ssRet[d].threw
           /\ ssRet[c].client = StripeServer(StoredSecret, ssSaw[c].constructed)
           /\ ssRet[d].client = StripeServer(StoredSecret, ssSaw[d].constructed)
           /\ ssSaw[c].constructed > 0 /\ ssSaw[d].constructed > 0
           /\ CacheGet(parameterCache, "STRIPE_SECRET_KEY") = StoredSecret
           /\ DOMAIN parameterCache = {"STRIPE_SECRET_KEY"}
           /\ stripeServerInstance.secretKey = StoredSecret
           /\ stripeServerInstance.apiVersion = "2025-07-30.basil"

\* two cold calls both went to the remote store before either had an answer,
\* both constructed a client, and the singleton is the second of the two
C13_Witness ==
    \E c, d \in ServerCalls :
        /\ OverlappingCold(c, d)
        /\ gpSaw[ssSlot[c]].remote = "value"
        /\ gpSaw[ssSlot[d]].remote = "value"
        /\ gpSaw[ssSlot[c]].contacted /\ gpSaw[ssSlot[d]].contacted
        /\ ssSaw[c].constructed = 1
        /\ ssSaw[d].constructed = 2
        /\ stripeServerInstance = ssRet[d].client
        /\ ssRet[c].client.secretKey = ssRet[d].client.secretKey

-----------------------------------------------------------------------------
(* Properties of the routes, checked under SpecRoutes and SpecVerify *)

\* the identifier is there and carries its literal prefix
WellFormedId(id, prefix) == Truthy(id) /\ StartsWith(id, prefix)

\* the identifier is supplied and does not carry its literal prefix
MalformedId(id, prefix) == Truthy(id) /\ ~StartsWith(id, prefix)

\* C14: in every route, a request that has issued a network call (a lookup
\* of the remote parameter store or a gateway call) carries no identifier
\* without its literal prefix: cs_ for the session id, cus_ for a customer
\* id, pm_ for a payment-method id.
C14_PrefixCheckedBeforeNetwork ==
    /\ vsCalls # <<>> => ~MalformedId(vsSessionId, "cs_")
    /\ coCalls # <<>> => ~MalformedId(coBody.customerId, "cus_")
    /\ \A r \in Requests :
        /\ rmCalls[r] # <<>>
            => /\ ~MalformedId(rmBody[r].customer_id, "cus_")
               /\ ~MalformedId(rmBody[r].payment_method_id, "pm_")
        /\ sdCalls[r] # <<>>
            => /\ ~MalformedId(sdBody[r].customer_id, "cus_")
               /\ ~MalformedId(sdBody[r].payment_method_id, "pm_")

\* the verify request lacks its session id or carries a malformed one
InvalidVerifyInput == ~WellFormedId(vsSessionId, "cs_")

\* the checkout body lacks its price reference, names an unknown tier, or
\* carries a malformed customer id or an invalid payment preference
InvalidCheckoutInput ==
    \/ ~Truthy(coBody.priceId)
    \/ (~StartsWith(coBody.priceId, "price_") /\ getPricingTierById(coBody.priceId) = NoTier)
    \/ MalformedId(coBody.customerId, "cus_")
    \/ InvalidPaymentPreference(coBody.payment_method_type)

\* the body of a set-default or remove request lacks an identifier or
\* carries a malformed one
InvalidIds(body) ==
    \/ ~WellFormedId(body.customer_id, "cus_")
    \/ ~WellFormedId(body.payment_method_id, "pm_")

\* C15: a request with a missing or malformed identifier or an invalid enum
\* value is answered with 400 and issues no gateway call, whatever
\* getStripeServer() does. (For the remove route the body is the one the
\* handler parsed.)
C15_InvalidInputIs400 ==
    /\ (vsPc # "idle" /\ InvalidVerifyInput)
        => /\ GatewayCalls(vsCalls) = {}
           /\ vsPc = "done" => vsResp.status = 400
    /\ (coPc # "idle" /\ coFault # "request.json" /\ InvalidCheckoutInput)
        => /\ GatewayCalls(coCalls) = {}
           /\ coPc = "done" => coResp.status = 400
    /\ \A r \in Requests :
        /\ (sdPc[r] # "idle" /\ InvalidIds(sdBody[r]))
            => /\ GatewayCalls(sdCalls[r]) = {}
               /\ sdPc[r] = "done" => sdResp[r].status = 400
        /\ (rmPc[r] # "idle" /\ rmResp[r].error # "Internal server error"
                /\ InvalidIds(rmBody[r]))
            => /\ GatewayCalls(rmCalls[r]) = {}
               /\ rmPc[r] = "done" => rmResp[r].status = 400

\* the fault the verifier caught is the gateway's no-such-session error
NoSuchSessionFault ==
    /\ vsFault.source = "sessions.retrieve"
    /\ vsFault.error.type = "invalid_request_error"
    /\ vsFault.error.noSuchSession

\* C16: the verifier answers 404 exactly when the fault it caught is an
\* invalid-request error with the no-such-session text; every other fault,
\* of getStripeServer() or of the gateway call, is answered 500 with the
\* generic error; a missing or malformed session id, a session that is not
\* complete, a session without subscription and a subscription or payment
\* status that does not fit the payment method are each answered 400.
C16_VerifyErrorMapping ==
    vsPc = "done" =>
        /\ vsResp.status = 404 <=> NoSuchSessionFault
        /\ (vsFault # NoFault /\ ~NoSuchSessionFault)
            => (vsResp.status = 500 /\ vsResp.error = "Failed to verify session"
                    /\ ~vsResp.success)
        /\ vsResp.status = 500 => vsFault # NoFault
        /\ (vsFault = NoFault /\ InvalidVerifyInput) => VerifyFailed
        /\ (vsFault = NoFault /\ vsSession # NoSession) =>
            /\ ~SessionCompleted(vsSession) => VerifyFailed
            /\ ~vsSession.subscription.present => VerifyFailed
            /\ (/\ SessionCompleted(vsSession)
                /\ vsSession.subscription.present
                /\ vsCriteria = "ach"
                /\ ~ACHSubscriptionActivated(vsSession.subscription)) => VerifyFailed
            /\ (/\ SessionCompleted(vsSession)
                /\ vsSession.subscription.present
                /\ vsCriteria = "card"
                /\ ~CardPaymentCompleted(vsSession)) => VerifyFailed

\* the gateway raised an invalid-request error without the no-such-session
\* text and the verifier answered 500
C16_Witness ==
    /\ vsPc = "done"
    /\ vsFault.source = "sessions.retrieve"
    /\ vsFault.error.type = "invalid_request_error"
    /\ ~vsFault.error.noSuchSession
    /\ vsResp.status = 500
    /\ vsResp.error = "Failed to verify session"

-----------------------------------------------------------------------------
(* Properties of the set-default route, checked under SpecSetDefault *)

\* C17: a set-default request issues customers.update only after it has seen
\* that the customer exists and is not deleted, that the payment method
\* exists, and that the payment method is attached to that customer; a
\* request that fails one of these checks (403 for a payment method of
\* another customer) issues no update, and the customer's default changes
\* only in the step in which such an update goes through.
C17_SetDefaultAfterChecks ==
    /\ [](\A r \in Requests :
            /\ (sdLocal[r].updateIssued \/ Issued(sdCalls[r], "customers.update"))
                => /\ sdLocal[r].customerSeen
                   /\ sdLocal[r].paymentMethodSeen
                   /\ sdLocal[r].owner = sdBody[r].customer_id
                   /\ sdBody[r].customer_id \in Customers
            /\ (sdPc[r] = "done" /\ sdLocal[r].paymentMethodSeen
                    /\ sdLocal[r].owner # sdBody[r].customer_id)
                => (sdResp[r].status = 403 /\ ~sdLocal[r].updateIssued)
            /\ (sdPc[r] = "done" /\ sdResp[r].status \in {403, 404})
                => (~sdLocal[r].updateIssued /\ ~Issued(sdCalls[r], "customers.update")))
    /\ [][pmDefault' # pmDefault
            => \E r \in Requests :
                /\ sdPc[r] = "update"
                /\ sdLocal[r].updateIssued
                /\ sdLocal[r].customerSeen
                /\ sdLocal[r].owner = sdBody[r].customer_id
                /\ sdResp'[r].status = 200
                /\ pmDefault' = [pmDefault EXCEPT ![sdBody[r].customer_id] =
                                    sdBody[r].payment_method_id]]_vars

\* one request was refused with 403 for a payment method of another
\* customer, whose default is unchanged, and another request set a
\* customer's default to one of its own payment methods
C17_Witness ==
    \E r, q \in Requests :
        /\ sdPc[r] = "done"
        /\ sdResp[r].status = 403
        /\ pmOwner[sdBody[r].payment_method_id] # sdBody[r].customer_id
        /\ pmDefault[sdBody[r].customer_id] # sdBody[r].payment_method_id
        /\ sdPc[q] = "done"
        /\ sdResp[q].status = 200
        /\ sdLocal[q].updated
        /\ pmDefault[sdBody[q].customer_id] = sdBody[q].payment_method_id

-----------------------------------------------------------------------------
(* Properties of all routes, checked under SpecRoutes *)

\* a handler is waiting for a call it has awaited
Pending ==
    \/ vsPc \notin {"idle", "done"}
    \/ coPc \notin {"idle", "done"}
    \/ \E r \in Requests : rmPc[r] \notin {"idle", "done"}
    \/ \E r \in Requests : sdPc[r] \notin {"idle", "done"}

\* how far a handler has come
PcRank(pc) ==
    CASE pc = "idle" -> 0
      [] pc \in {"stripe", "customer"} -> 1
      [] pc \in {"retrieve", "create", "paymentMethod"} -> 2
      [] pc = "subscriptions" -> 3
      [] pc = "lists" -> 4
      [] pc = "detach" -> 5
      [] pc = "update" -> 6
      [] pc = "done" -> 7

\* Every handler comes to its end: a handler that waits for a call always
\* has a step to take, whatever the call does, and every step takes one
\* handler forward and none back, so that no handler takes more than a
\* fixed number of steps.
EveryRequestAnswered ==
    /\ [](Pending => ENABLED RoutesNext)
    /\ [][/\ PcRank(vsPc') >= PcRank(vsPc)
          /\ PcRank(coPc') >= PcRank(coPc)
          /\ \A r \in Requests :
                /\ PcRank(rmPc'[r]) >= PcRank(rmPc[r])
                /\ PcRank(sdPc'[r]) >= PcRank(sdPc[r])
          /\ \/ PcRank(vsPc') > PcRank(vsPc)
             \/ PcRank(coPc') > PcRank(coPc)
             \/ \E r \in Requests :
                    \/ PcRank(rmPc'[r]) > PcRank(rmPc[r])
                    \/ PcRank(sdPc'[r]) > PcRank(sdPc[r])]_vars

\* a handler that has finished has produced a response, and no response is
\* produced before that
AnsweredWithResponse ==
    /\ vsPc = "done" <=> vsResp.status # 0
    /\ coPc = "done" <=> coResp.status # 0
    /\ \A r \in Requests :
        /\ rmPc[r] = "done" <=> rmResp[r].status # 0
        /\ sdPc[r] = "done" <=> sdResp[r].status # 0

\* the failure responses of the verifier and of the payment-method routes
\* carry success: false and an error text
PaymentRoutesFailStructured ==
    /\ (vsPc = "done" /\ vsResp.status # 200)
        => (~vsResp.success /\ Truthy(vsResp.error))
    /\ \A r \in Requests :
        /\ (rmPc[r] = "done" /\ rmResp[r].status # 200)
            => (~rmResp[r].success /\ Truthy(rmResp[r].error))
        /\ (sdPc[r] = "done" /\ sdResp[r].status # 200)
            => (~sdResp[r].success /\ Truthy(sdResp[r].error))

NoRepeat(calls) ==
    \A i, j \in 1..Len(calls) : calls[i] = calls[j] => i = j

\* within one request no network call is issued a second time
SingleAttempt ==
    /\ NoRepeat(vsCalls)
    /\ NoRepeat(coCalls)
    /\ \A r \in Requests : NoRepeat(rmCalls[r]) /\ NoRepeat(sdCalls[r])

\* the last call the request issued
LastCall(calls) == IF calls = <<>> THEN Null ELSE calls[Len(calls)]

UserSafeMessages ==
    {"Your card was declined.",
     "Too many requests made to the API too quickly.",
     "Invalid parameters were supplied to Stripe's API.",
     "An error occurred internally with Stripe's API.",
     "You probably used an incorrect API key.",
     "Idempotency key already used.",
     "An unexpected error occurred."}
    \union {InvalidRequestCodeMessage(c) : c \in InvalidRequestCodes}
    \union {AchCodeMessage(c) : c \in AchCodes}

\* C20: the translation of a gateway fault is one of the fixed messages,
\* or, for a fault of the invalid-request type only, the fault's own
\* message; for every other type the returned detail is not the raw
\* message. (The translation returns a fixed message or the message whole,
\* so the detail contains the raw message exactly when it equals it.)
C20_RawMessageOnlyForInvalidRequest ==
    (hePc = "done" /\ isStripeError(heError))
        => /\ \/ heDetail \in UserSafeMessages
              \/ /\ heError.type = "invalid_request_error"
                 /\ heDetail = heError.message
           /\ (heError.type # "invalid_request_error" /\ Truthy(heError.message))
                => heDetail # heError.message

-----------------------------------------------------------------------------
(* Properties of the catalog, checked under SpecVerify, whose handler looks
   the plan up by the price reference of the subscription *)

\* the tiers of the catalog
CatalogTiers == {PRICING_TIERS[i] : i \in 1..Len(PRICING_TIERS)}

\* the tiers and billing cycles for which there is a price reference
PricedCycles ==
    {tc \in CatalogTiers \X {"monthly", "yearly"} :
        Truthy(PriceReferenceFor(tc[1], tc[2]))}

\* C21: for every tier and billing cycle of the catalog with a price
\* reference, the lookup by that price reference returns the tier itself, no
\* price reference belongs to two tiers, and a verified session whose
\* subscription carries the price reference is reported with the tier's name.
C21_PriceLookupRoundTrip ==
    /\ \A tc \in PricedCycles :
        /\ getPricingTierByStripePriceId(PriceReferenceFor(tc[1], tc[2])) = tc[1]
        /\ \A ud \in PricedCycles :
            PriceReferenceFor(ud[1], ud[2]) = PriceReferenceFor(tc[1], tc[2])
                => ud[1] = tc[1]
        /\ (/\ vsPc = "done"
            /\ vsResp.status = 200
            /\ vsSession.subscription.priceId = PriceReferenceFor(tc[1], tc[2]))
           => vsResp.planName = tc[1].name

\* a verified session on the price reference of the last tier of the catalog
C21_Witness ==
    /\ vsPc = "done"
    /\ vsResp.status = 200
    /\ <<PRICING_TIERS[3], "monthly">> \in PricedCycles
    /\ vsSession.subscription.priceId = PriceReferenceFor(PRICING_TIERS[3], "monthly")
    /\ vsResp.planName = "Enterprise"

-----------------------------------------------------------------------------
(* Properties of the session parameters, checked under SpecCheckout *)

\* bank transfer is among the payment-method types of the session
BankTransferOffered ==
    \E i \in 1..Len(coParams.payment_method_types) :
        coParams.payment_method_types[i] = "us_bank_account"

C23_CustomerBeforeEmail ==
    coParams # NoParams =>
        /\ Truthy(coBody.customerId)
            => (coParams.customer = coBody.customerId /\ coParams.customer_email = Null)
        /\ (~Truthy(coBody.customerId) /\ Truthy(coBody.customerEmail))
            => (coParams.customer = Null /\ coParams.customer_email = coBody.customerEmail)
        /\ ~(coParams.customer # Null /\ coParams.customer_email # Null)

\* sessions.create was issued for a body with both a customer reference and
\* an email, with the customer and without the email
C23_Witness ==
    /\ SessionCreateIssued
    /\ coBody.customerId = "cus_A"
    /\ Truthy(coBody.customerEmail)
    /\ coParams.customer = "cus_A"
    /\ coParams.customer_email = Null

-----------------------------------------------------------------------------
(* Properties of the verifier's classification and of the order of its
   checks, under SpecVerify *)

\* the intent is an expanded object whose payment method is expanded too
CarriesPaymentMethod(intent) == intent.kind = "object" /\ intent.pm_kind = "object"

\* the handler has answered a request whose session the gateway returned
VerifiedRetrieved == vsPc = "done" /\ vsSession # NoSession

\* C24: the detected payment-method type is the type of the payment
\* intent's expanded payment method when there is one, whatever the setup
\* intent carries; it is the type of the setup intent's expanded payment
\* method exactly when the payment intent is missing, unexpanded or without
\* expanded payment method; otherwise nothing is detected. The response of a
\* verified session reports the detected type, and the criteria that ran
\* are those of that type.
C24_PaymentIntentBeforeSetupIntent ==
    LET pi == vsSession.payment_intent
        si == vsSession.setup_intent
        detected == IF CarriesPaymentMethod(pi) THEN pi.pm_type
                    ELSE IF CarriesPaymentMethod(si) THEN si.pm_type
                    ELSE Null
    IN
    /\ (VerifiedRetrieved /\ vsResp.status = 200)
        => vsResp.paymentMethodType = detected
    /\ (VerifiedRetrieved /\ vsCriteria # "none")
        => (vsCriteria = "ach" <=> detected = "us_bank_account")

\* both intents carry an expanded payment method, a card on the payment
\* intent and a bank account on the setup intent: the card is reported
C24_Witness ==
    /\ VerifiedRetrieved
    /\ vsResp.status = 200
    /\ CarriesPaymentMethod(vsSession.payment_intent)
    /\ CarriesPaymentMethod(vsSession.setup_intent)
    /\ vsSession.payment_intent.pm_type = "card"
    /\ vsSession.setup_intent.pm_type = "us_bank_account"
    /\ vsResp.paymentMethodType = "card"
    /\ vsCriteria = "card"

\* C25: the first failing check alone decides the response, in the order:
\* session id (before any fetch), session status, subscription, success
\* criteria of the detected payment method. A session that is not complete
\* is reported as not completed whether or not it has a subscription, and a
\* session without subscription is never judged on its payment status.
C25_RejectionOrder ==
    /\ (vsPc # "idle" /\ ~(Truthy(vsSessionId) /\ StartsWith(vsSessionId, "cs_")))
        => /\ vsPc = "done"
           /\ vsCalls = <<>>
           /\ vsSession = NoSession
           /\ vsResp.status = 400
           /\ vsResp.error \in {"Missing session_id parameter", "Invalid session_id format"}
    /\ VerifiedRetrieved =>
        /\ vsSession.status # "complete"
            => (vsResp.status = 400 /\ vsResp.error = "Session not completed")
        /\ (vsSession.status = "complete" /\ ~vsSession.subscription.present)
            => /\ vsResp.status = 400
               /\ vsResp.error = "No subscription found for this session"
        /\ vsResp.error \in {"Payment not completed",
                             "ACH subscription not properly activated"}
            => /\ vsSession.status = "complete"
               /\ vsSession.subscription.present
               /\ vsResp.status = 400
               /\ vsResp.error = "Payment not completed"
                    <=> (vsCriteria = "card" /\ vsSession.payment_status # "paid")

\* a session that is open, without subscription and unpaid is reported as
\* not completed
C25_Witness ==
    /\ VerifiedRetrieved
    /\ vsSession.status = "open"
    /\ ~vsSession.subscription.present
    /\ vsSession.payment_status = "unpaid"
    /\ vsResp.status = 400
    /\ vsResp.error = "Session not completed"

\* C29: a complete session with a subscription whose payment method is not
\* detected, or is of a type other than us_bank_account, is judged by the
\* card criteria: it succeeds exactly with payment status paid, whatever the
\* state of the subscription, and is reported with verificationMethod
\* card_payment, and with paymentMethodType null when nothing was detected.
C29_UndetectedIsCard ==
    LET pi == vsSession.payment_intent
        si == vsSession.setup_intent
        nothingDetected == ~CarriesPaymentMethod(pi) /\ ~CarriesPaymentMethod(si)
        otherType ==
            \/ CarriesPaymentMethod(pi) /\ pi.pm_type # "us_bank_account"
            \/ ~CarriesPaymentMethod(pi) /\ CarriesPaymentMethod(si)
                    /\ si.pm_type # "us_bank_account"
    IN
    (/\ VerifiedRetrieved
     /\ vsSession.status = "complete"
     /\ vsSession.subscription.present
     /\ (nothingDetected \/ otherType))
    => /\ vsCriteria = "card"
       /\ vsResp.status = 200 <=> vsSession.payment_status = "paid"
       /\ vsResp.status # 200
            => (vsResp.status = 400 /\ vsResp.error = "Payment not completed")
       /\ vsResp.status = 200
            => /\ vsResp.verificationMethod = "card_payment"
               /\ nothingDetected => vsResp.paymentMethodType = Null

\* a paid session without any expanded payment method, whose subscription
\* is incomplete, is verified as a card payment with no payment-method type
C29_Witness ==
    /\ VerifiedRetrieved
    /\ ~CarriesPaymentMethod(vsSession.payment_intent)
    /\ ~CarriesPaymentMethod(vsSession.setup_intent)
    /\ vsSession.payment_status = "paid"
    /\ vsSession.subscription.status = "incomplete"
    /\ vsResp.status = 200
    /\ vsResp.verificationMethod = "card_payment"
    /\ vsResp.paymentMethodType = Null

-----------------------------------------------------------------------------
(* Properties of concurrent remove requests, checked under SpecRemove *)

\* the requests that detached a payment method of the customer
DetachedFor(customer) ==
    {r \in Requests : rmLocal[r].detached /\ rmBody[r].customer_id = customer}

\* C26: a customer with an active subscription whose payment methods were
\* detached only by remove requests is left with at least one payment
\* method, under any interleaving of the requests. It is stated here for
\* requests whose guard listings all succeeded, which is the case of two
\* overlapping removes of the customer's two payment methods.
C26_SubscriberKeepsPaymentMethod ==
    \A customer \in Customers :
        (/\ subsActive[customer] > 0
         /\ DetachedFor(customer) # {}
         /\ \A r \in DetachedFor(customer) : rmLocal[r].guard = "passed")
        => AttachedTo(customer) # {}

C28_FailureLeavesGatewayUnchanged ==
    \A r \in Requests :
        (rmPc[r] = "done" /\ rmResp[r].status # 200)
        => /\ ~rmResp[r].success
           /\ ~rmLocal[r].detached

-----------------------------------------------------------------------------
(* Properties of the success page, checked under FairSpecSuccessPage *)

\* loading becomes false and stays false
LoadingEnds == <>[](~spLoading)

\* once loading is false, either an error message is set or the
\* subscription data is, and not both
ErrorOrSubscription ==
    ~spLoading => ((spError # Null) # (spSubscription # Null))

\* C30: the verification always leaves the loading state, and once loading
\* is false exactly one of the two holds: an error message is set, or the
\* subscription data is set; also after the session id has changed and the
\* verification has run again.
C30_LoadingEndsWithErrorOrData == LoadingEnds /\ []ErrorOrSubscription

====
